---- MODULE Spec2Model ----
(***************************************************************************)
(* Model of the analytics controller (createAnalyticsController), the      *)
(* metrics bus and the browser resources they drive.                       *)
(*                                                                         *)
(* start() and stop() are async functions: each call is a process whose    *)
(* position (pc) is the await point it is suspended at.  All code between  *)
(* two await points that are separated only by already-settled promises    *)
(* runs as one atomic step, as on the JavaScript event loop.               *)
(***************************************************************************)
EXTENDS Integers, Sequences, FiniteSets, TLC

\* ------------------------------------------------------------------ bounds
MaxCalls == 3              \* start()/stop() invocations in one behaviour
MaxInFlight == 2           \* calls that are unsettled at the same time
MaxTime == 1               \* last value of the clock (Date.now())
MAX_METRICS_BUFFER == 3    \* CONFIG.MAX_METRICS_BUFFER (18000), scaled down
MaxTicks == 4              \* timer callbacks in one behaviour
MaxSessionTicks == 1       \* timer callbacks in one behaviour of SpecSession
MaxEvents == 1             \* producer messages in one behaviour
MaxSubs == 2               \* bus subscribers (callbacks)
TONE_HISTORY_SIZE == 2     \* TONE_HISTORY_SIZE (30 ticks), scaled down
PauseWindowTicks == 3      \* ticks in PAUSE_WINDOW_SEC at METRICS_HZ (100), scaled down
SecPerUnit == 30           \* seconds in one unit of the clock
MaxMetricsTime == 2        \* last value of the clock in SpecMetrics
MaxFrames == 2             \* frames captured and not yet answered (SpecFace)
MaxFaceEvents == 2         \* worker answers in one behaviour of SpecFace
MaxEmotionEvents == 2      \* final segments in one behaviour of SpecEmotion
MaxEmotionTicks == 2       \* ticks in one behaviour of SpecEmotion
MaxInitCalls == 3          \* calls of initGoEmotions in one behaviour
MaxBlinkFrames == 5        \* frames analysed in one behaviour of SpecBlink
FrameMs == 30000           \* time between two analysed frames, in ms
MaxWindowTicks == 2        \* ticks in one behaviour of SpecWindows
MaxLoopCycles == 2         \* analysis cycles in one behaviour of SpecFaceLoop
MaxInitTime == 2           \* last value of the clock in SpecInit
MaxCycles == 4             \* analysis cycles in one behaviour of SpecWorker
MaxRestarts == 3           \* automatic restarts of the recognizer in a row
MaxAsrErrors == 2          \* recognizer error events in one behaviour
MaxMetricsEvents == 2      \* producer messages in one behaviour of SpecMetrics

\* ------------------------------------------------------- program constants
WPM_WINDOW_SEC == 30       \* CONFIG.WPM_WINDOW_SEC
RMS_NOISE_FLOOR == 3       \* CONFIG.RMS_NOISE_FLOOR (0.03), in hundredths

Null == 0
Slots == 1..MaxInFlight     \* places for the unsettled calls
Ids == 1..(MaxCalls + 1)    \* handles of browser resources
Subs == 1..MaxSubs
Throwing == {1}            \* the callbacks that throw when invoked
AudioVals == {2, 9}        \* rms values (hundredths) carried by worklet messages
FaceVals == {1}            \* face results carried by worker messages
\* final transcript segments, as the words between white space (<<>>: an empty
\* or whitespace-only text)
Segments == {<<>>, <<"um", "hello">>}
Emotions == {<<"joy">>, <<"fear", "anger">>}   \* results of a classification
BLINK_THRESHOLD == 25      \* 0.25, in hundredths
WINDOW_MS == 60000
EarVals == {10, 25, 30}    \* EAR below, at and above the threshold
INIT_TIMEOUT_SEC == 30     \* setTimeout(..., 30000) of the face worker init
CHART_BUFFER_SEC == 30     \* CONFIG.CHART_BUFFER_SEC
EpochSec == 1700000000     \* Date.now() / 1000 when the behaviour begins
MaxChartTicks == 4         \* ticks in one behaviour of SpecChart
MaxChartTime == 3          \* last value of the clock in SpecChart
MaxConnects == 2           \* 'connected' events in one behaviour of SpecPanel
MaxPanelTicks == 2         \* ticks in one behaviour of SpecPanel
MaxSubscriptions == 2      \* live subscriptions of one callback
MaxTranscriptEvents == 3   \* recognizer results in one behaviour of SpecTranscript
MaxLabels == 4             \* scored labels in one result of the model
ScoredLabels == {"joy", "fear", "anger", "neutral"}
Scores == {10, 30, 60}     \* scores, in hundredths
Thresholds == {30, 35}     \* 0.30 (classifyEmotions) and 0.35 (the default)
TopKs == 1..3              \* topK (3 by default and in classifyEmotions)
MaxDurationTime == 3       \* last value of the clock in SpecDuration
MaxPanelCalls == 4         \* start()/stop() invocations in one behaviour of SpecPanel
GAZE_WINDOW_MS == 5000
FrameSteps == {2500, 30000}   \* ms between two analysis cycles
AsrErrorCodes == {"no-speech", "network"}   \* SpeechRecognitionErrorEvent.error
FILLER_WORDS == {"um", "uh", "er", "ah", "hmm"}
Absent == -1               \* undefined (a field that is not set)
\* what estimateFaces finds in a frame: the eye aspect ratio (hundredths), the
\* eye centre and the head pose and smile computed from the landmarks
Faces == [ear : EarVals, x : {0, 2}, y : {0}, yaw : {7}, pitch : {3}, smile : {1}]
NoFace == [ear |-> Absent]
EstimateThrows == [ear |-> Absent - 1]

VARIABLES
  \* controller closure state (analyticsController.ts 48-94)
  isRunning, startTime, endTime, stream, mediaRecorder, audioContext,
  audioWorkletNode, latestAudioData, faceWorker, faceLoopId, latestFaceData,
  transcriptFinal, fillerCount, allMetrics, metricsIntervalId, videoElement,
  wordTimestamps, rmsHistory,
  \* browser resources
  liveTracks,        \* streams whose tracks have not been stopped
  openContexts,      \* AudioContexts on which close() was not yet called
  audioNodes,        \* open contexts that carry a worklet node with a handler
  connectedNodes,    \* worklet nodes connected to the destination
  liveWorkers,       \* workers not terminated
  analysisHandler,   \* live workers whose onmessage is the analysis handler
  liveLoops,         \* scheduled requestAnimationFrame callbacks
  liveTimers,        \* active setInterval timers
  recording,         \* MediaRecorders in state 'recording'
  videoSrc,          \* videoElement.srcObject
  asrIsRunning,      \* ASRService.isRunning
  framesOutstanding, \* frames posted to the face worker and not yet answered
  recognizing,       \* the recognizer has been started and has not ended
  \* metrics bus
  subscribers, lastPublish,
  \* scheduling
  now, calls, nCalls, lastSettled, nPublished, nEvents, asrAvailable,
  \* history variables (observations only, never read by the program)
  repeatedTeardown, runningSince, stoppedClean, stoppedSince,
  finalTimes,        \* arrival times of the segments of transcriptFinal
  lastAudioMsg,      \* the last worklet message since the session reset
  lastFaceMsg,       \* the last analysis result since the session reset
  transcriptInterim, \* the controller's transcriptInterim
  lastResult,        \* the last recognizer result delivered: "none" so far,
                     \* "interim" or "final"
  classifying,       \* the classifications in progress: the ordinal of the
                     \* final segment each is for and whether it was started
                     \* before the last session reset
  emoFrom,           \* the classification whose result is cached (seg 0: none)
  doneMax,           \* the greatest ordinal among the segments whose
                     \* classification has completed since the session reset
  restarts,          \* automatic restarts of the recognizer since it was
                     \* started or delivered a result
  asrErrors,         \* error events of the recognizer so far
  lastAsrError,      \* the last of them
  lastEmotions,      \* the cached result of the last completed classification
  pipePromise,       \* _pipePromise: "null", "pending" or "fulfilled"
  pipeReady,         \* _pipeReady
  loading,           \* loads of the model in progress
  lastLoad,          \* how the last finished load ended: "none" so far,
                     \* "succeeded" or "failed"
  initCalls,         \* calls of initGoEmotions so far
  awaitingInit,      \* classifications awaiting initGoEmotions()
  awaitingPipe,      \* classifications awaiting pipe(text)
  classifyFailed,    \* classifications that have failed
  lastEyeAspectRatio, \* face worker: EAR of the previous frame, in hundredths
  blinkCount,        \* face worker: blinks counted
  blinkTimestamps,   \* face worker: times of the blinks of the last minute
  earSeq,            \* the EAR values of the frames analysed so far
  workerNow,         \* face worker: Date.now() at the last analysis cycle, ms
  gazePositions,     \* face worker: eye centres of the last five seconds
  workerResult,      \* the last analysis result the worker posted
  lastOutcome,       \* what the last cycle saw: "face", "noface", "error"
  cycles,            \* analysis cycles so far
  blinkInserted,     \* every timestamp pushed to blinkTimestamps, in order
  gazeInserted,      \* every entry pushed to gazePositions, in order
  frameFailed,       \* the last run of captureFrame caught an exception
  \* useMetrics hook
  hookMounted,       \* the hook's effect has subscribed to the bus
  wpmData,           \* wpmDataRef.current: the rolling buffer of wpm points
  received,          \* every wpm point the hook was given, with its arrival
  \* AnalyticsPanel and the page that renders it
  isInterviewRunning, \* the prop set by the page's handleEvent
  panelRunning,      \* the panel's isRunning state
  finalizing,        \* finalizingRef.current
  effectDue,         \* the start/stop effect has to run (a dependency changed)
  handled,           \* settled controller calls whose continuation has run
  summaries,         \* calls of onSummary since the last controller.start()
  connects,          \* 'connected' events so far
  \* the bus as its users see it, and a second controller
  subscriptions,     \* per callback: the subscribe() calls through this
                     \* controller whose unsubscribe function was not called
  viaPeer,           \* the callbacks subscribed through the second
                     \* controller's onMetrics()
  peerRunning,       \* the second controller's isRunning
  \* classifyGoEmotions
  goInput,           \* the last call: what pipe(text) returned, threshold, topK
  goOutput,          \* what the last call returned
  \* face capture loop
  capturing          \* captureFrame calls suspended at createImageBitmap

ctlVars == <<isRunning, startTime, endTime, stream, mediaRecorder, audioContext,
             audioWorkletNode, latestAudioData, faceWorker, faceLoopId,
             latestFaceData, transcriptFinal, fillerCount, allMetrics,
             metricsIntervalId, videoElement, wordTimestamps, rmsHistory,
             lastEmotions>>
envVars == <<liveTracks, openContexts, audioNodes, connectedNodes, liveWorkers, analysisHandler,
             liveLoops, liveTimers, recording, videoSrc, asrIsRunning,
             framesOutstanding, recognizing>>
clsVars == <<classifying, emoFrom, doneMax>>
sessVars == <<repeatedTeardown, runningSince, stoppedClean, stoppedSince,
              finalTimes, restarts, lastAudioMsg, lastFaceMsg,
              transcriptInterim, lastResult>>
histVars == <<sessVars, clsVars>>
callVars == <<calls, nCalls, lastSettled>>
emoVars == <<pipePromise, pipeReady, loading, lastLoad, initCalls,
             awaitingInit, awaitingPipe, classifyFailed>>
blinkVars == <<lastEyeAspectRatio, blinkCount, blinkTimestamps, earSeq>>
workerVars == <<workerNow, gazePositions, workerResult, lastOutcome, cycles,
               blinkInserted, gazeInserted>>
chartVars == <<hookMounted, wpmData, received>>
extCore == <<capturing, asrErrors, lastAsrError, emoVars, blinkVars,
             workerVars, frameFailed>>
panelVars == <<isInterviewRunning, panelRunning, finalizing, effectDue, handled,
               summaries, connects>>
peerVars == <<subscriptions, viaPeer, peerRunning>>
pickVars == <<goInput, goOutput>>
extVars == <<extCore, chartVars, panelVars, peerVars, pickVars>>
vars == <<ctlVars, envVars, histVars, subscribers, lastPublish, now, callVars,
          nPublished, nEvents, asrAvailable, extVars>>

\* The controller and browser state as one value, so that the statements of
\* a handler compose sequentially.
Cur ==
  [isRunning |-> isRunning, startTime |-> startTime, endTime |-> endTime,
   stream |-> stream, mediaRecorder |-> mediaRecorder,
   audioContext |-> audioContext, audioWorkletNode |-> audioWorkletNode,
   latestAudioData |-> latestAudioData, faceWorker |-> faceWorker,
   faceLoopId |-> faceLoopId, latestFaceData |-> latestFaceData,
   transcriptFinal |-> transcriptFinal, fillerCount |-> fillerCount,
   allMetrics |-> allMetrics, metricsIntervalId |-> metricsIntervalId,
   videoElement |-> videoElement,
   wordTimestamps |-> wordTimestamps, rmsHistory |-> rmsHistory,
   lastEmotions |-> lastEmotions,
   liveTracks |-> liveTracks, openContexts |-> openContexts,
   audioNodes |-> audioNodes, connectedNodes |-> connectedNodes,
   liveWorkers |-> liveWorkers,
   analysisHandler |-> analysisHandler, liveLoops |-> liveLoops,
   liveTimers |-> liveTimers, recording |-> recording, videoSrc |-> videoSrc,
   asrIsRunning |-> asrIsRunning, framesOutstanding |-> framesOutstanding,
   recognizing |-> recognizing, restarts |-> restarts,
   repeatedTeardown |-> repeatedTeardown,
   runningSince |-> runningSince, finalTimes |-> finalTimes,
   lastAudioMsg |-> lastAudioMsg, lastFaceMsg |-> lastFaceMsg,
   classifying |-> classifying, emoFrom |-> emoFrom, doneMax |-> doneMax,
   transcriptInterim |-> transcriptInterim, lastResult |-> lastResult,
   \* the teardown steps performed in the present step, by number
   steps |-> <<>>]

Commit(m) ==
  /\ isRunning' = m.isRunning /\ startTime' = m.startTime
  /\ endTime' = m.endTime /\ stream' = m.stream
  /\ mediaRecorder' = m.mediaRecorder /\ audioContext' = m.audioContext
  /\ audioWorkletNode' = m.audioWorkletNode
  /\ latestAudioData' = m.latestAudioData /\ faceWorker' = m.faceWorker
  /\ faceLoopId' = m.faceLoopId /\ latestFaceData' = m.latestFaceData
  /\ transcriptFinal' = m.transcriptFinal /\ fillerCount' = m.fillerCount
  /\ allMetrics' = m.allMetrics /\ metricsIntervalId' = m.metricsIntervalId
  /\ videoElement' = m.videoElement
  /\ wordTimestamps' = m.wordTimestamps /\ rmsHistory' = m.rmsHistory
  /\ lastEmotions' = m.lastEmotions
  /\ liveTracks' = m.liveTracks /\ openContexts' = m.openContexts
  /\ audioNodes' = m.audioNodes /\ connectedNodes' = m.connectedNodes
  /\ liveWorkers' = m.liveWorkers
  /\ analysisHandler' = m.analysisHandler /\ liveLoops' = m.liveLoops
  /\ liveTimers' = m.liveTimers /\ recording' = m.recording
  /\ videoSrc' = m.videoSrc /\ asrIsRunning' = m.asrIsRunning
  /\ framesOutstanding' = m.framesOutstanding
  /\ recognizing' = m.recognizing /\ restarts' = m.restarts
  /\ repeatedTeardown' = m.repeatedTeardown
  /\ runningSince' = m.runningSince
  /\ finalTimes' = m.finalTimes
  /\ lastAudioMsg' = m.lastAudioMsg /\ lastFaceMsg' = m.lastFaceMsg
  /\ classifying' = m.classifying /\ emoFrom' = m.emoFrom
  /\ doneMax' = m.doneMax
  /\ transcriptInterim' = m.transcriptInterim /\ lastResult' = m.lastResult

\* Record that a teardown step is applied to a resource; `live` tells whether
\* the resource had not been torn down before.
TearDown(m, live) == [m EXCEPT !.repeatedTeardown = @ \/ ~live]

\* Record that teardown step number k of stop() is performed: 1 timer,
\* 2 transcription, 3 face loop, 4 face worker, 5 worklet node, 6 audio
\* context, 7 media tracks, 8 video sink.
Did(m, k) == [m EXCEPT !.steps = Append(@, k)]

\* ------------------------------------------------------------ stop() body
StopIsNoopUnguarded(m) == FALSE

\* if (!isRunning && !stream) return;
StopIsNoop(m) == ~m.isRunning /\ m.stream = Null

\* clearInterval(metricsIntervalId)
StopTimer(m) ==
  IF m.metricsIntervalId # Null
  THEN [TearDown(Did(m, 1), m.metricsIntervalId \in m.liveTimers) EXCEPT
          !.liveTimers = @ \ {m.metricsIntervalId},
          !.metricsIntervalId = Null]
  ELSE m

\* asrService.stop(): recognition.stop() only when the service is running
StopASR(m) ==
  IF m.asrIsRunning
  THEN [TearDown(m, TRUE) EXCEPT !.asrIsRunning = FALSE]
  ELSE m

\* cancelAnimationFrame(faceLoopId); faceWorker.terminate()
StopFace(m) ==
  LET m1 == IF m.faceLoopId # Null
            THEN [TearDown(Did(m, 3), TRUE) EXCEPT
                    !.liveLoops = @ \ {m.faceLoopId}, !.faceLoopId = Null]
            ELSE m
  IN IF m1.faceWorker # Null
     THEN [TearDown(Did(m1, 4), m1.faceWorker \in m1.liveWorkers) EXCEPT
             !.liveWorkers = @ \ {m1.faceWorker},
             !.analysisHandler = @ \ {m1.faceWorker}, !.faceWorker = Null,
             !.framesOutstanding = 0]
     ELSE m1

\* audioWorkletNode.disconnect()
StopNode(m) ==
  IF m.audioWorkletNode # Null
  THEN [TearDown(Did(m, 5), m.audioWorkletNode \in m.connectedNodes) EXCEPT
          !.connectedNodes = @ \ {m.audioWorkletNode},
          !.audioWorkletNode = Null]
  ELSE m

\* audioContext.close() is called; the promise it returns settles later.
\* close() on a context that is already closed rejects (InvalidStateError).
CloseCall(m) ==
  [TearDown(Did(m, 6), m.audioContext \in m.openContexts) EXCEPT
     !.openContexts = @ \ {m.audioContext},
     !.audioNodes = @ \ {m.audioContext}]

CloseSucceeds(m) == m.audioContext \in m.openContexts

\* mediaRecorder.stop() when its state is not 'inactive'
StopRecorder(m) ==
  IF m.mediaRecorder # Null /\ m.mediaRecorder \in m.recording
  THEN [TearDown(m, TRUE) EXCEPT
          !.recording = @ \ {m.mediaRecorder}]
  ELSE m

\* stream.getTracks().forEach(track => track.stop()); stream = null
StopStream(m) ==
  IF m.stream # Null
  THEN [TearDown(Did(m, 7), m.stream \in m.liveTracks) EXCEPT
          !.liveTracks = @ \ {m.stream}, !.stream = Null]
  ELSE m

\* videoElement.srcObject = null
ClearVideo(m) ==
  IF m.videoElement THEN [Did(m, 8) EXCEPT !.videoSrc = Null] ELSE m

StopHeadFaceFirst(m, t) ==
  StopNode(Did(StopASR(StopFace(StopTimer(
    [m EXCEPT !.isRunning = FALSE, !.endTime = t, !.runningSince = FALSE]))), 2))

\* stop() from `isRunning = false` up to the audio context
StopHead(m, t) ==
  StopNode(StopFace(Did(StopASR(StopTimer(
    [m EXCEPT !.isRunning = FALSE, !.endTime = t, !.runningSince = FALSE])), 2)))

\* stop() after the audio context
StopTail(m) == ClearVideo(StopStream(StopRecorder(m)))

\* A call of stop() run up to its first suspension.
\* status: "done" (returned), "awaitOk"/"awaitFail" (suspended in close()).
RunStop(m, t) ==
  IF StopIsNoop(m)
  THEN [m |-> [m EXCEPT !.runningSince = FALSE], status |-> "done",
        noop |-> TRUE]
  ELSE LET m1 == StopHead(m, t)
       IN IF m1.audioContext = Null
          THEN [m |-> StopTail(m1), status |-> "done", noop |-> FALSE]
          ELSE [m |-> CloseCall(m1),
                status |-> IF CloseSucceeds(m1) THEN "awaitOk" ELSE "awaitFail",
                noop |-> FALSE]

\* stop() resumed after `await audioContext.close()` resolved
ResumeStop(m) == StopTail([m EXCEPT !.audioContext = Null])

\* ----------------------------------------------------------- start() body
NoClassification == [seg |-> 0, old |-> FALSE]

\* Reset state (start(), before the try block)
ResetSession(m) ==
  [m EXCEPT !.transcriptFinal = <<>>, !.fillerCount = 0, !.allMetrics = <<>>,
            !.latestAudioData = Null, !.latestFaceData = Null,
            !.wordTimestamps = <<>>, !.rmsHistory = <<>>,
            !.lastEmotions = <<>>,
            !.finalTimes = <<>>,
            !.lastAudioMsg = Null, !.lastFaceMsg = Null,
            !.transcriptInterim = <<>>,
            !.classifying = {[c EXCEPT !.old = TRUE] : c \in @},
            !.emoFrom = NoClassification, !.doneMax = 0]

\* A step of start(): the state it leaves, the await point it suspends at
\* ("resolved"/"rejected" when it settles) and the outcome of a pending close().
Go(m, pc) == [m |-> m, pc |-> pc, closeOk |-> TRUE]

\* catch (error) { await this.stop(); throw error; }
Catch(m, t) ==
  LET r == RunStop(m, t)
  IN [m |-> r.m,
      pc |-> IF r.status = "done" THEN "rejected" ELSE "catchclose",
      closeOk |-> (r.status = "awaitOk")]

\* asrService.start(callbacks): a running recognizer is stopped first, and
\* recognition.start() on a recognizer that has not ended yet throws (caught:
\* isRunning stays false).
SetupASR(m, avail, asrOk) ==
  IF ~avail THEN m
  ELSE LET m1 == StopASR(m)
       IN IF m.asrIsRunning /\ ~asrOk THEN m1
          ELSE [m1 EXCEPT !.asrIsRunning = TRUE, !.recognizing = TRUE,
                          !.restarts = 0]

\* setupASR .. console.log('Analytics controller started')
\* new MediaRecorder(null) is a TypeError; recOk: the recorder can be created.
Finish(m, ids, opts, t, avail, asrOk, recOk) ==
  LET m1 == IF opts.useASR THEN SetupASR(m, avail, asrOk) ELSE m
  IN IF m1.stream = Null \/ ~recOk
     THEN Catch(m1, t)
     ELSE Go([m1 EXCEPT !.mediaRecorder = ids.recorder,
                        !.recording = @ \cup {ids.recorder},
                        !.metricsIntervalId = ids.timer,
                        !.liveTimers = @ \cup {ids.timer},
                        !.isRunning = TRUE, !.startTime = t,
                        !.runningSince = TRUE],
             "resolved")

\* setupFacePipeline up to the worker's answer to 'init'
SetupFace(m, ids) ==
  Go([m EXCEPT !.faceWorker = ids.worker, !.liveWorkers = @ \cup {ids.worker}],
     "faceinit")

\* setupFacePipeline after the worker answered 'initialized':
\* faceWorker.onmessage = ... (TypeError when faceWorker is null), first
\* requestAnimationFrame, then the rest of start()
AfterFaceInit(m, ids, opts, t, avail, asrOk, recOk) ==
  IF m.faceWorker = Null
  THEN Catch(m, t)
  ELSE Finish([m EXCEPT !.analysisHandler = @ \cup {m.faceWorker},
                        !.faceLoopId = ids.loop,
                        !.liveLoops = @ \cup {ids.loop}],
              ids, opts, t, avail, asrOk, recOk)

\* setupAudioPipeline after addModule resolved, then the face pipeline.
\* new AudioWorkletNode(null) is a TypeError; srcOk: createMediaStreamSource
\* accepts a context that has been closed meanwhile.
AfterWorklet(m, ids, opts, t, avail, asrOk, recOk, srcOk) ==
  IF m.audioContext = Null
  THEN Catch(m, t)
  ELSE LET m1 == [m EXCEPT !.audioWorkletNode = ids.node,
                           !.audioNodes = @ \cup ({m.audioContext} \cap m.openContexts),
                           !.connectedNodes = @ \cup {ids.node}]
       IN IF m.audioContext \notin m.openContexts /\ ~srcOk
          THEN Catch(m1, t)
          ELSE IF m1.videoElement
               THEN SetupFace(m1, ids)
               ELSE Finish(m1, ids, opts, t, avail, asrOk, recOk)

\* stream.getAudioTracks() (TypeError when stream is null), new AudioContext,
\* audioWorklet.addModule(...)
AfterPlay(m, ids, t) ==
  IF m.stream = Null
  THEN Catch(m, t)
  ELSE Go([m EXCEPT !.audioContext = ids.context,
                    !.openContexts = @ \cup {ids.context}],
          "worklet")

\* stream = await getUserMedia(...) resolved; attach the video element
AfterGum(m, ids, opts, t) ==
  LET m1 == [m EXCEPT !.stream = ids.stream, !.liveTracks = @ \cup {ids.stream}]
  IN IF opts.videoEl
     THEN Go([m1 EXCEPT !.videoElement = TRUE, !.videoSrc = ids.stream], "play")
     ELSE AfterPlay(m1, ids, t)

AlreadyRunningUnguarded(m) == FALSE

\* if (isRunning) throw new Error('Already running')
AlreadyRunning(m) == m.isRunning

\* ------------------------------------------------------------ metrics bus
\* subscribers.forEach(subscriber => { try { subscriber(event) } catch {} }):
\* the callbacks invoked, in order, and whether an exception escaped.
RECURSIVE ForEach(_, _)
ForEach(subs, caught) ==
  IF subs = <<>>
  THEN [invoked |-> <<>>, threw |-> FALSE]
  ELSE LET s == Head(subs)
       IN IF s \in Throwing /\ ~caught
          THEN [invoked |-> <<s>>, threw |-> TRUE]
          ELSE LET r == ForEach(Tail(subs), caught)
               IN [invoked |-> <<s>> \o r.invoked, threw |-> r.threw]

PublishNoCatch(subs) == ForEach(subs, FALSE)

\* MetricsBus.publish
Publish(subs) == ForEach(subs, TRUE)

InSeq(x, q) == \E i \in 1..Len(q) : q[i] = x

RECURSIVE Without(_, _)
Without(q, x) ==
  IF q = <<>> THEN <<>>
  ELSE IF Head(q) = x THEN Without(Tail(q), x)
       ELSE <<Head(q)>> \o Without(Tail(q), x)

\* --------------------------------------------------------- publishMetrics
\* Math.round(a / b), for a >= 0 and b > 0
Round(a, b) == (2 * a + b) \div (2 * b)

\* while (blinkTimestamps.length > 0 && blinkTimestamps[0] < cutoff) shift()
RECURSIVE DropWhileOld(_, _)
DropWhileOld(q, cutoff) ==
  IF q # <<>> /\ Head(q) < cutoff THEN DropWhileOld(Tail(q), cutoff) ELSE q

\* array.filter(test), for a test given as the set of the values that pass
RECURSIVE Filter(_, _)
Filter(q, keep) ==
  IF q = <<>> THEN <<>>
  ELSE IF Head(q) \in keep THEN <<Head(q)>> \o Filter(Tail(q), keep)
       ELSE Filter(Tail(q), keep)

WordsInWindowStrict(words, t) ==
  Filter(words, {w \in 0..t : w * SecPerUnit > t * SecPerUnit - WPM_WINDOW_SEC})

\* calculateWPM: the word timestamps that stay, t >= now - windowMs
WordsInWindow(words, t) ==
  Filter(words, {w \in 0..t : w * SecPerUnit >= t * SecPerUnit - WPM_WINDOW_SEC})

\* calculateWPM: the value returned
CalculateWPM(words, t) ==
  LET n == Len(WordsInWindow(words, t))
  IN IF n = 0 THEN 0 ELSE Round(n * 60, WPM_WINDOW_SEC)

\* calculatePauseRatio: pauses / rmsHistory.length, as a fraction
CalculatePauseRatio(h) ==
  IF h = <<>> THEN [num |-> 0, den |-> 1]
  ELSE [num |-> Len(Filter(h, {r \in 0..100 : r < RMS_NOISE_FLOOR * 2})),
        den |-> Len(h)]

\* the neutral result of the face worker
Neutral == [yaw |-> 0, pitch |-> 0, blinkPerMin |-> 0, smile |-> 0,
            gazeJitter |-> [num |-> 0, den |-> 1]]

AbsentRatio == [num |-> 0, den |-> 0]

\* calculateFillersPerMin: fillerCount / elapsedMin, in thousandths
CalculateFillersPerMin(m, t) ==
  LET elapsedSec == (t - m.startTime) * SecPerUnit
  IN IF elapsedSec = 0 THEN 0
     ELSE (m.fillerCount * 60 * 1000) \div elapsedSec

\* latestAudioData.rms || 0
CurrentRms(m) == IF m.latestAudioData = Null THEN 0 ELSE m.latestAudioData

\* if (rmsHistory.length > TONE_HISTORY_SIZE) rmsHistory.shift()
TrimHistory(h) == IF Len(h) > TONE_HISTORY_SIZE THEN Tail(h) ELSE h

\* publishMetrics: rmsHistory after the push and the trim
NextRmsHistory(m) == TrimHistory(Append(m.rmsHistory, CurrentRms(m)))

\* The event built by publishMetrics (seq numbers the publications).
MetricsEvent(m, t, seq, avail) ==
  [t |-> t - m.startTime, seq |-> seq,
   wpm |-> IF avail THEN CalculateWPM(m.wordTimestamps, t) ELSE Absent,
   rms |-> m.latestAudioData,
   pause_ratio |-> IF Len(NextRmsHistory(m)) > 0
                   THEN CalculatePauseRatio(NextRmsHistory(m)) ELSE AbsentRatio,
   fillers_per_min |-> CalculateFillersPerMin(m, t),
   face |-> m.latestFaceData, transcript_final |-> m.transcriptFinal,
   emotions |-> m.lastEmotions]

TrimBufferKeepOldest(h) ==
  IF Len(h) > MAX_METRICS_BUFFER THEN SubSeq(h, 1, Len(h) - 1) ELSE h

\* if (allMetrics.length > CONFIG.MAX_METRICS_BUFFER) allMetrics.shift()
TrimBuffer(h) == IF Len(h) > MAX_METRICS_BUFFER THEN Tail(h) ELSE h

NoEvent == [t |-> -1, seq |-> 0, wpm |-> Absent, rms |-> Null,
            pause_ratio |-> AbsentRatio, fillers_per_min |-> Absent,
            face |-> Null, transcript_final |-> <<>>, emotions |-> <<>>]

\* getMetricsSummary, calculateStats(values).mean: Math.round(mean * 100) / 100
\* of values given in thousandths; null (Absent) for no values
RECURSIVE Sum(_)
Sum(q) == IF q = <<>> THEN 0 ELSE Head(q) + Sum(Tail(q))

StatsMean(values) ==
  IF values = <<>> THEN Absent
  ELSE Round(Sum(values), Len(values) * 10) * 10

\* [...values].sort((a, b) => a - b)
RECURSIVE Insert(_, _)
Insert(x, q) ==
  IF q = <<>> THEN <<x>>
  ELSE IF x <= Head(q) THEN <<x>> \o q
  ELSE <<Head(q)>> \o Insert(x, Tail(q))

RECURSIVE SortAsc(_)
SortAsc(q) == IF q = <<>> THEN <<>> ELSE Insert(Head(q), SortAsc(Tail(q)))

\* sorted[Math.floor(sorted.length / 2)] (indices from 0)
MedianOf(sorted) == sorted[(Len(sorted) \div 2) + 1]

\* getMetricsSummary, calculateStats(values): null (Absent) for no values;
\* the mean, rounded to two decimals, in hundredths
CalculateStats(values) ==
  IF values = <<>> THEN Absent
  ELSE LET sorted == SortAsc(values)
       IN [mean |-> Round(Sum(values) * 100, Len(values)),
           median |-> MedianOf(sorted),
           min |-> sorted[1],
           max |-> sorted[Len(sorted)]]

\* allMetrics.map(m => m.wpm).filter(v => v !== undefined)
RECURSIVE WpmValues(_)
WpmValues(h) ==
  IF h = <<>> THEN <<>>
  ELSE IF Head(h).wpm = Absent THEN WpmValues(Tail(h))
  ELSE <<Head(h).wpm>> \o WpmValues(Tail(h))

\* getMetricsSummary().speech.wpm
SummaryWpm(m) == CalculateStats(WpmValues(m.allMetrics))

\* getMetricsSummary().speech.fillers_per_min.mean
SummaryFillersPerMin(m) ==
  StatsMean([i \in 1..Len(m.allMetrics) |-> m.allMetrics[i].fillers_per_min])

\* text.trim().split(/\s+/): the empty text splits into one empty word
Split(text) == IF text = <<>> THEN <<"">> ELSE text

\* (text.match(FILLER_REGEX) || []).length
Fillers(text) == Len(Filter(text, FILLER_WORDS))

\* ------------------------------------------------------------------ calls
\* calls: the unsettled calls of start()/stop(), by call number.
\* lastSettled: the call that settled last, with what was observed of it.
StartInFlight == \E c \in DOMAIN calls : calls[c].kind = "start"
StopInFlight == \E c \in DOMAIN calls : calls[c].kind = "stop"
InFlight == Cardinality(DOMAIN calls)
FreeSlot == CHOOSE c \in Slots : c \notin DOMAIN calls /\ \A d \in 1..(c - 1) : d \in DOMAIN calls
CallLimit == IF connects > 0 THEN MaxPanelCalls ELSE MaxCalls
CanCall == nCalls < CallLimit /\ InFlight < MaxInFlight

NewCall(kind, pc, videoEl) ==
  [kind |-> kind, pc |-> pc, videoEl |-> videoEl, closeOk |-> TRUE,
   worker |-> Null,
   \* Date.now() when the call began to wait at pc
   since |-> now,
   \* the teardown steps the call has performed, in the order performed
   steps |-> <<>>,
   \* observed when the call was issued
   concurrent |-> StopInFlight, afterClean |-> stoppedClean,
   \* a stop() was issued while a start() was in progress: this stop(), or
   \* (set by StopCall) this start()
   stopDuringStart |-> (kind = "stop" /\ StartInFlight),
   \* observed while it runs
   quiet |-> TRUE, didTeardown |-> FALSE, failed |-> FALSE]

SettledCall(call, outcome, error) ==
  [kind |-> call.kind, outcome |-> outcome, error |-> error,
   concurrent |-> call.concurrent, afterClean |-> call.afterClean,
   didTeardown |-> call.didTeardown, failed |-> call.failed,
   steps |-> call.steps, stopDuringStart |-> call.stopDuringStart,
   \* observed when the call settled
   at |-> now, published |-> nPublished, events |-> nEvents]

NoCall == [kind |-> "none", outcome |-> "none", error |-> "none",
           concurrent |-> FALSE, afterClean |-> FALSE, didTeardown |-> FALSE,
           failed |-> FALSE, steps |-> <<>>, stopDuringStart |-> FALSE,
           at |-> 0, published |-> 0,
           events |-> 0]

Drop(cs, c) == [i \in DOMAIN cs \ {c} |-> cs[i]]
Put(cs, c, call) == [i \in DOMAIN cs \cup {c} |-> IF i = c THEN call ELSE cs[i]]

\* a stop() is issued: the start() calls in flight are marked
MarkStopped(cs) ==
  [i \in DOMAIN cs |->
     [cs[i] EXCEPT !.stopDuringStart = @ \/ cs[i].kind = "start"]]

\* every step of a start() ends the quiet period of the stop() calls in flight
Disturb(cs) == [i \in DOMAIN cs |-> [cs[i] EXCEPT !.quiet = FALSE]]

\* The smallest handle that does not name a resource in `used`
Fresh(used) == CHOOSE i \in Ids : i \notin used /\ \A j \in 1..(i - 1) : j \in used

\* The handles of the resources that the next step creates
NewIds ==
  [stream |-> Fresh(liveTracks \cup {videoSrc}),
   context |-> Fresh(openContexts),
   node |-> Fresh(connectedNodes),
   worker |-> Fresh(liveWorkers \cup {calls[d].worker : d \in DOMAIN calls}),
   loop |-> Fresh(liveLoops),
   recorder |-> Fresh(recording),
   timer |-> Fresh(liveTimers)]

\* The options of call c. The callers of this repository pass useASR: true or
\* leave the default (true).
Opts(c) == [videoEl |-> calls[c].videoEl, useASR |-> TRUE]

Init ==
  \* endTime is Absent for the 0 it has in the code until a stop() assigns
  \* it: Date.now() is never 0, the clock of the model starts at 0
  /\ isRunning = FALSE /\ startTime = 0 /\ endTime = Absent
  /\ stream = Null /\ mediaRecorder = Null /\ audioContext = Null
  /\ audioWorkletNode = Null /\ latestAudioData = Null
  /\ faceWorker = Null /\ faceLoopId = Null /\ latestFaceData = Null
  /\ transcriptFinal = <<>> /\ fillerCount = 0 /\ allMetrics = <<>>
  /\ metricsIntervalId = Null /\ videoElement = FALSE
  /\ wordTimestamps = <<>> /\ rmsHistory = <<>>
  /\ liveTracks = {} /\ openContexts = {} /\ audioNodes = {}
  /\ connectedNodes = {}
  /\ liveWorkers = {} /\ analysisHandler = {} /\ liveLoops = {}
  /\ liveTimers = {} /\ recording = {} /\ videoSrc = Null
  /\ asrIsRunning = FALSE /\ framesOutstanding = 0
  /\ recognizing = FALSE /\ restarts = 0
  /\ capturing = 0 /\ asrErrors = 0 /\ lastAsrError = "none"
  /\ lastEmotions = <<>>
  /\ pipePromise = "null" /\ pipeReady = FALSE /\ loading = 0
  /\ lastLoad = "none" /\ initCalls = 0
  /\ awaitingInit = 0 /\ awaitingPipe = 0 /\ classifyFailed = 0
  /\ lastEyeAspectRatio = 100 /\ blinkCount = 0
  /\ blinkTimestamps = <<>> /\ earSeq = <<>>
  /\ workerNow = 0 /\ gazePositions = <<>> /\ workerResult = Neutral
  /\ lastOutcome = "none" /\ cycles = 0
  /\ blinkInserted = <<>> /\ gazeInserted = <<>>
  /\ frameFailed = FALSE
  /\ hookMounted = FALSE /\ wpmData = <<>> /\ received = <<>>
  /\ isInterviewRunning = FALSE /\ panelRunning = FALSE /\ finalizing = FALSE
  /\ effectDue = FALSE /\ handled = 0 /\ summaries = 0 /\ connects = 0
  /\ subscribers = <<>>
  /\ lastPublish = [event |-> NoEvent, classifying |-> 0, by |-> "none",
                    invoked |-> <<>>, threw |-> FALSE]
  /\ subscriptions = [s \in Subs |-> 0] /\ viaPeer = {}
  /\ peerRunning = FALSE
  /\ goInput = [raw |-> <<>>, threshold |-> 35, topK |-> 3] /\ goOutput = <<>>
  /\ now = 0 /\ calls = [i \in {} |-> NoCall] /\ nCalls = 0 /\ lastSettled = NoCall
  /\ nPublished = 0 /\ nEvents = 0
  /\ asrAvailable = TRUE
  /\ repeatedTeardown = FALSE /\ runningSince = FALSE
  /\ stoppedClean = FALSE /\ stoppedSince = FALSE
  /\ finalTimes = <<>>
  /\ lastAudioMsg = Null /\ lastFaceMsg = Null
  /\ classifying = {} /\ emoFrom = NoClassification /\ doneMax = 0
  /\ transcriptInterim = <<>> /\ lastResult = "none"

\* A step of start() call c with result r (of Go or Catch)
StartStep(c, r) ==
  LET call == [calls[c] EXCEPT !.pc = r.pc, !.closeOk = r.closeOk,
                 !.since = now, !.steps = @ \o r.m.steps,
                 !.worker = IF r.pc = "faceinit" THEN NewIds.worker ELSE @,
                 !.failed = @ \/ r.pc \in {"rejected", "catchclose"}]
  IN /\ Commit(r.m)
     /\ IF r.pc \in {"resolved", "rejected"}
        THEN /\ calls' = Drop(Disturb(calls), c)
             /\ lastSettled' = SettledCall(call, r.pc,
                                 IF r.pc = "rejected" THEN "failed" ELSE "none")
        ELSE /\ calls' = Put(Disturb(calls), c, call)
             /\ UNCHANGED lastSettled
     /\ stoppedClean' = FALSE
     /\ stoppedSince' = IF r.pc = "resolved" THEN FALSE ELSE stoppedSince
     /\ UNCHANGED <<subscribers, lastPublish, now, nCalls, nPublished, nEvents,
                    asrAvailable>>
     /\ UNCHANGED extVars

\* controller.start(opts) is called
StartCallBody(videoEl) ==
  /\ CanCall
  /\ nCalls' = nCalls + 1
  /\ IF AlreadyRunning(Cur)
     THEN /\ calls' = Disturb(calls)
          /\ lastSettled' = SettledCall(NewCall("start", "rejected", videoEl),
                                        "rejected", "Already running")
          /\ UNCHANGED <<ctlVars, envVars, repeatedTeardown, runningSince,
                         finalTimes, restarts, lastAudioMsg, lastFaceMsg,
                         clsVars, transcriptInterim, lastResult>>
     ELSE /\ calls' = Put(Disturb(calls), FreeSlot, NewCall("start", "gum", videoEl))
          /\ Commit(ResetSession(Cur))
          /\ UNCHANGED lastSettled
  /\ stoppedClean' = FALSE
  /\ UNCHANGED <<subscribers, lastPublish, now, nPublished, nEvents,
                 asrAvailable, stoppedSince>>

StartCall(videoEl) == StartCallBody(videoEl) /\ UNCHANGED extVars

AtStart(c, pc) == c \in DOMAIN calls /\ calls[c].kind = "start" /\ calls[c].pc = pc

\* getUserMedia resolves / rejects
GumResolve(c) == AtStart(c, "gum") /\ StartStep(c, AfterGum(Cur, NewIds, Opts(c), now))
GumReject(c) == AtStart(c, "gum") /\ StartStep(c, Catch(Cur, now))
\* videoEl.play() resolves / rejects
PlayResolve(c) == AtStart(c, "play") /\ StartStep(c, AfterPlay(Cur, NewIds, now))
PlayReject(c) == AtStart(c, "play") /\ StartStep(c, Catch(Cur, now))
\* audioWorklet.addModule resolves / rejects
WorkletResolve(c) ==
  /\ AtStart(c, "worklet")
  /\ \E asrOk, recOk, srcOk \in BOOLEAN :
       StartStep(c, AfterWorklet(Cur, NewIds, Opts(c), now, asrAvailable, asrOk, recOk, srcOk))
WorkletReject(c) == AtStart(c, "worklet") /\ StartStep(c, Catch(Cur, now))
\* the worker answers 'initialized' (only a worker that was not terminated)
FaceInitResolve(c) ==
  /\ AtStart(c, "faceinit")
  /\ calls[c].worker \in liveWorkers
  /\ \E asrOk, recOk \in BOOLEAN :
       StartStep(c, AfterFaceInit(Cur, NewIds, Opts(c), now, asrAvailable, asrOk, recOk))
\* the worker answers 'error', or the 30 s timeout fires
FaceInitReject(c) == AtStart(c, "faceinit") /\ StartStep(c, Catch(Cur, now))
\* the timer of the face worker init of call c is due
FaceInitDue(c) ==
  AtStart(c, "faceinit")
    /\ (now - calls[c].since) * SecPerUnit >= INIT_TIMEOUT_SEC
\* the 30 s timeout of the face worker init fires: reject(new Error('Face
\* worker init timeout ...'))
FaceInitTimeout(c) == FaceInitDue(c) /\ StartStep(c, Catch(Cur, now))
\* the close() awaited by the stop() of the catch block settles
CatchCloseSettle(c) ==
  /\ AtStart(c, "catchclose")
  /\ StartStep(c, [m |-> IF calls[c].closeOk THEN ResumeStop(Cur) ELSE Cur,
                   pc |-> "rejected", closeOk |-> calls[c].closeOk])

\* controller.stop() is called
StopCallBody ==
  /\ CanCall
  /\ nCalls' = nCalls + 1
  /\ LET r == RunStop(Cur, now)
         call == [NewCall("stop", "close", FALSE) EXCEPT
                    !.closeOk = (r.status = "awaitOk"), !.didTeardown = ~r.noop,
                    !.steps = r.m.steps]
     IN /\ Commit(r.m)
        /\ IF r.status = "done"
           THEN /\ lastSettled' = SettledCall(call, "resolved", "none")
                /\ calls' = MarkStopped(calls)
                /\ stoppedClean' = TRUE
                /\ stoppedSince' = TRUE
           ELSE /\ calls' = Put(MarkStopped(calls), FreeSlot, call)
                /\ UNCHANGED <<lastSettled, stoppedClean, stoppedSince>>
  /\ UNCHANGED <<subscribers, lastPublish, now, nPublished, nEvents, asrAvailable>>

StopCall == StopCallBody /\ UNCHANGED extVars

\* the close() awaited by stop() call c settles
StopCloseSettle(c) ==
  /\ c \in DOMAIN calls /\ calls[c].kind = "stop" /\ calls[c].pc = "close"
  /\ calls' = Drop(calls, c)
  /\ IF calls[c].closeOk
     THEN /\ Commit(ResumeStop(Cur))
          /\ lastSettled' = SettledCall(
                              [calls[c] EXCEPT !.steps = @ \o ResumeStop(Cur).steps],
                              "resolved", "none")
          /\ stoppedClean' = (stoppedClean \/ calls[c].quiet)
          /\ stoppedSince' = TRUE
     ELSE /\ lastSettled' = SettledCall([calls[c] EXCEPT !.failed = TRUE],
                                        "rejected", "failed")
          /\ UNCHANGED <<ctlVars, envVars, histVars>>
  /\ UNCHANGED <<subscribers, lastPublish, now, nCalls, nPublished, nEvents,
                 asrAvailable>>
  /\ UNCHANGED extVars

\* ------------------------------------------------- timer, clock, producers
\* endTime || Date.now()
EndOrNow == IF endTime # Absent THEN endTime ELSE now

\* getMetricsDump().durationMs and the duration of getMetricsSummary(), in
\* clock units
Duration == EndOrNow - startTime

\* Date.now() in seconds: the clock of the model counts from EpochSec
DateNowSec == EpochSec + now * SecPerUnit

\* while (buffer.length > 0 && buffer[0].t < cutoff) buffer.shift()
\* (the t of a point is in clock units, the cutoff in seconds)
RECURSIVE TrimPoints(_, _)
TrimPoints(buffer, cutoff) ==
  IF buffer # <<>> /\ Head(buffer).t * SecPerUnit < cutoff
  THEN TrimPoints(Tail(buffer), cutoff)
  ELSE buffer

\* addPoint(buffer, value) for a defined value
AddPoint(buffer, t, value, cutoff) ==
  TrimPoints(Append(buffer, [t |-> t, v |-> value]), cutoff)

\* the callback the hook subscribed: addPoint(wpmDataRef.current, event.wpm)
HookOnEvent(event) ==
  IF hookMounted /\ event.wpm # Absent
  THEN /\ wpmData' = AddPoint(wpmData, event.t, event.wpm,
                              DateNowSec - CHART_BUFFER_SEC)
       /\ received' = Append(received,
                             [t |-> event.t, v |-> event.wpm, at |-> now])
       /\ UNCHANGED hookMounted
  ELSE UNCHANGED chartVars

\* useEffect(() => { const unsubscribe = metricsBus.subscribe(...) }, [])
MountHook ==
  /\ ~hookMounted
  /\ hookMounted' = TRUE
  /\ UNCHANGED <<ctlVars, envVars, histVars, subscribers, lastPublish, now,
                 callVars, nPublished, nEvents, asrAvailable, extCore,
                 wpmData, received, panelVars, peerVars, pickVars>>

\* the interval timer `id` fires: publishMetrics()
Tick(id) ==
  /\ id \in liveTimers
  /\ LET e == MetricsEvent(Cur, now, nPublished + 1, asrAvailable)
     IN /\ allMetrics' = TrimBuffer(Append(allMetrics, e))
        /\ lastPublish' = [event |-> e, by |-> "own",
                           classifying |-> awaitingInit + awaitingPipe]
                          @@ Publish(subscribers)
  /\ wordTimestamps' = IF asrAvailable THEN WordsInWindow(wordTimestamps, now)
                       ELSE wordTimestamps
  /\ rmsHistory' = NextRmsHistory(Cur)
  /\ nPublished' = nPublished + 1
  /\ UNCHANGED <<isRunning, startTime, endTime, stream, mediaRecorder,
                 audioContext, audioWorkletNode, latestAudioData, faceWorker,
                 faceLoopId, latestFaceData, transcriptFinal, fillerCount,
                 metricsIntervalId, videoElement, lastEmotions, envVars,
                 histVars,
                 subscribers, now, callVars, nEvents, asrAvailable>>
  /\ HookOnEvent(MetricsEvent(Cur, now, nPublished + 1, asrAvailable))
  /\ UNCHANGED <<extCore, panelVars, peerVars, pickVars>>

\* Date.now() advances
AdvanceTo(max) ==
  /\ now < max
  /\ now' = now + 1
  /\ UNCHANGED <<ctlVars, envVars, histVars, subscribers, lastPublish, callVars,
                 nPublished, nEvents, asrAvailable>>
  /\ UNCHANGED extVars

Advance == AdvanceTo(MaxTime)

AudioMessageKeepsFirst(v) ==
  /\ audioNodes \cap openContexts # {}
  /\ latestAudioData' = IF latestAudioData = Null THEN v ELSE latestAudioData
  /\ lastAudioMsg' = v
  /\ nEvents' = nEvents + 1
  /\ UNCHANGED <<wordTimestamps, rmsHistory, lastEmotions>>
  /\ UNCHANGED <<isRunning, startTime, endTime, stream, mediaRecorder,
                 audioContext, audioWorkletNode, faceWorker, faceLoopId,
                 latestFaceData, transcriptFinal, fillerCount, allMetrics,
                 metricsIntervalId, videoElement, envVars, repeatedTeardown, runningSince, stoppedClean,
                 stoppedSince, finalTimes, restarts, lastFaceMsg, clsVars, transcriptInterim, lastResult,
                 subscribers, lastPublish, now, callVars, nPublished, asrAvailable>>
  /\ UNCHANGED extVars

\* audioWorkletNode.port.onmessage
AudioMessage(v) ==
  /\ audioNodes \cap openContexts # {}
  /\ latestAudioData' = v
  /\ lastAudioMsg' = v
  /\ nEvents' = nEvents + 1
  /\ UNCHANGED <<wordTimestamps, rmsHistory, lastEmotions>>
  /\ UNCHANGED <<isRunning, startTime, endTime, stream, mediaRecorder,
                 audioContext, audioWorkletNode, faceWorker, faceLoopId,
                 latestFaceData, transcriptFinal, fillerCount, allMetrics,
                 metricsIntervalId, videoElement, envVars, repeatedTeardown, runningSince, stoppedClean,
                 stoppedSince, finalTimes, restarts, lastFaceMsg, clsVars, transcriptInterim, lastResult,
                 subscribers, lastPublish, now, callVars, nPublished, asrAvailable>>
  /\ UNCHANGED extVars

\* faceWorker.onmessage (analysis results)
FaceMessage(v) ==
  /\ liveWorkers \cap analysisHandler # {}
  /\ latestFaceData' = v
  /\ lastFaceMsg' = v
  /\ nEvents' = nEvents + 1
  /\ framesOutstanding' = IF framesOutstanding > 0 THEN framesOutstanding - 1 ELSE 0
  /\ UNCHANGED <<wordTimestamps, rmsHistory, lastEmotions>>
  /\ UNCHANGED <<isRunning, startTime, endTime, stream, mediaRecorder,
                 audioContext, audioWorkletNode, latestAudioData, faceWorker,
                 faceLoopId, transcriptFinal, fillerCount, allMetrics,
                 metricsIntervalId, videoElement, liveTracks, openContexts, audioNodes,
                 connectedNodes, liveWorkers, analysisHandler, liveLoops,
                 liveTimers, recording, videoSrc, asrIsRunning, recognizing,
                 repeatedTeardown, runningSince, stoppedClean,
                 stoppedSince, finalTimes, restarts, lastAudioMsg, clsVars, transcriptInterim, lastResult,
                 subscribers, lastPublish, now, callVars, nPublished, asrAvailable>>
  /\ UNCHANGED extVars

\* captureFrame, the requestAnimationFrame callback `loop`, up to its await.
\* due: the frame interval has passed; bitmapOk: the canvas can be drawn.
CaptureFrame(loop, due, bitmapOk) ==
  /\ loop \in liveLoops
  /\ IF ~isRunning \/ faceWorker = Null
     THEN /\ liveLoops' = liveLoops \ {loop}
          /\ UNCHANGED <<faceLoopId, capturing, frameFailed>>
     ELSE IF ~due \/ ~bitmapOk
     THEN /\ faceLoopId' = Fresh(liveLoops \ {loop})
          /\ liveLoops' = (liveLoops \ {loop}) \cup {Fresh(liveLoops \ {loop})}
          /\ frameFailed' = due
          /\ UNCHANGED capturing
     ELSE /\ liveLoops' = liveLoops \ {loop}
          /\ capturing' = capturing + 1
          /\ frameFailed' = FALSE
          /\ UNCHANGED faceLoopId
  /\ UNCHANGED <<isRunning, startTime, endTime, stream, mediaRecorder,
                 audioContext, audioWorkletNode, latestAudioData, faceWorker,
                 latestFaceData, transcriptFinal, fillerCount, allMetrics,
                 metricsIntervalId, videoElement, wordTimestamps, rmsHistory,
                 lastEmotions, recognizing, liveTracks, openContexts, audioNodes, connectedNodes,
                 liveWorkers, analysisHandler, liveTimers, recording, videoSrc,
                 asrIsRunning, framesOutstanding, histVars, subscribers,
                 lastPublish, now, callVars, nPublished, nEvents, asrAvailable,
                 asrErrors, lastAsrError, emoVars, blinkVars,
                 workerVars, chartVars, panelVars, peerVars, pickVars>>

\* captureFrame after createImageBitmap resolved: faceWorker.postMessage (a
\* TypeError, caught, when faceWorker is null), then requestAnimationFrame
BitmapReady ==
  /\ capturing > 0
  /\ capturing' = capturing - 1
  /\ framesOutstanding' = IF faceWorker # Null /\ faceWorker \in liveWorkers
                          THEN framesOutstanding + 1 ELSE framesOutstanding
  /\ faceLoopId' = Fresh(liveLoops)
  /\ liveLoops' = liveLoops \cup {Fresh(liveLoops)}
  /\ frameFailed' = (faceWorker = Null)
  /\ UNCHANGED <<isRunning, startTime, endTime, stream, mediaRecorder,
                 audioContext, audioWorkletNode, latestAudioData, faceWorker,
                 latestFaceData, transcriptFinal, fillerCount, allMetrics,
                 metricsIntervalId, videoElement, wordTimestamps, rmsHistory,
                 lastEmotions, recognizing, liveTracks, openContexts, audioNodes, connectedNodes,
                 liveWorkers, analysisHandler, liveTimers, recording, videoSrc,
                 asrIsRunning, histVars, subscribers,
                 lastPublish, now, callVars, nPublished, nEvents, asrAvailable,
                 asrErrors, lastAsrError, emoVars, blinkVars,
                 workerVars, chartVars, panelVars, peerVars, pickVars>>

BitmapRejectEndsLoop ==
  /\ capturing > 0
  /\ capturing' = capturing - 1
  /\ frameFailed' = TRUE
  /\ UNCHANGED <<faceLoopId, liveLoops>>
  /\ UNCHANGED <<isRunning, startTime, endTime, stream, mediaRecorder,
                 audioContext, audioWorkletNode, latestAudioData, faceWorker,
                 latestFaceData, transcriptFinal, fillerCount, allMetrics,
                 metricsIntervalId, videoElement, wordTimestamps, rmsHistory,
                 lastEmotions, recognizing, liveTracks, openContexts, audioNodes,
                 connectedNodes, liveWorkers, analysisHandler, liveTimers,
                 recording, videoSrc, asrIsRunning, framesOutstanding, histVars,
                 subscribers, lastPublish, now, callVars, nPublished, nEvents,
                 asrAvailable, asrErrors, lastAsrError, emoVars, blinkVars,
                 workerVars, chartVars, panelVars, peerVars, pickVars>>

\* captureFrame after createImageBitmap rejected: the catch logs
\* (console.warn), then requestAnimationFrame
BitmapReject ==
  /\ capturing > 0
  /\ capturing' = capturing - 1
  /\ frameFailed' = TRUE
  /\ faceLoopId' = Fresh(liveLoops)
  /\ liveLoops' = liveLoops \cup {Fresh(liveLoops)}
  /\ UNCHANGED <<isRunning, startTime, endTime, stream, mediaRecorder,
                 audioContext, audioWorkletNode, latestAudioData, faceWorker,
                 latestFaceData, transcriptFinal, fillerCount, allMetrics,
                 metricsIntervalId, videoElement, wordTimestamps, rmsHistory,
                 lastEmotions, recognizing, liveTracks, openContexts, audioNodes,
                 connectedNodes, liveWorkers, analysisHandler, liveTimers,
                 recording, videoSrc, asrIsRunning, framesOutstanding, histVars,
                 subscribers, lastPublish, now, callVars, nPublished, nEvents,
                 asrAvailable, asrErrors, lastAsrError, emoVars, blinkVars,
                 workerVars, chartVars, panelVars, peerVars, pickVars>>

InitGoEmotionsUnshared ==
  /\ initCalls' = initCalls + 1
  /\ pipePromise' = IF pipePromise # "fulfilled" THEN "pending" ELSE pipePromise
  /\ loading' = IF pipePromise # "fulfilled" THEN loading + 1 ELSE loading
  /\ UNCHANGED <<pipeReady, lastLoad>>

\* initGoEmotions() up to its await: `if (_pipePromise) return _pipePromise`,
\* otherwise _pipePromise becomes the promise of a new load
InitGoEmotions ==
  /\ initCalls' = initCalls + 1
  /\ pipePromise' = IF pipePromise = "null" THEN "pending" ELSE pipePromise
  /\ loading' = IF pipePromise = "null" THEN loading + 1 ELSE loading
  /\ UNCHANGED <<pipeReady, lastLoad>>

\* classifyGoEmotions(text) for a text that is not blank, up to its first
\* await that has to wait: initGoEmotions() while the model is not loaded,
\* pipe(text) once it is
ClassifyGoEmotions ==
  /\ InitGoEmotions
  /\ IF pipePromise = "fulfilled"
     THEN awaitingPipe' = awaitingPipe + 1 /\ UNCHANGED awaitingInit
     ELSE awaitingInit' = awaitingInit + 1 /\ UNCHANGED awaitingPipe
  /\ UNCHANGED classifyFailed

AsrInterimAppends(text) ==
  /\ asrIsRunning
  /\ transcriptInterim' = text
  /\ transcriptFinal' = Append(transcriptFinal, text)
  /\ lastResult' = "interim"
  /\ restarts' = 0
  /\ nEvents' = nEvents + 1
  /\ UNCHANGED <<isRunning, startTime, endTime, stream, mediaRecorder,
                 audioContext, audioWorkletNode, latestAudioData, faceWorker,
                 faceLoopId, latestFaceData, fillerCount,
                 allMetrics, metricsIntervalId, videoElement, wordTimestamps,
                 rmsHistory, lastEmotions>>
  /\ UNCHANGED <<envVars, repeatedTeardown, runningSince, stoppedClean,
                 stoppedSince, finalTimes, lastAudioMsg, lastFaceMsg, clsVars>>
  /\ UNCHANGED <<subscribers, lastPublish, now, callVars, nPublished,
                 asrAvailable, extVars>>

\* onInterim callback of the recognizer (recognition.onresult, a result that
\* is not final)
AsrInterim(text) ==
  /\ asrIsRunning
  /\ transcriptInterim' = text
  /\ lastResult' = "interim"
  /\ restarts' = 0
  /\ nEvents' = nEvents + 1
  /\ UNCHANGED ctlVars
  /\ UNCHANGED <<envVars, repeatedTeardown, runningSince, stoppedClean,
                 stoppedSince, finalTimes, lastAudioMsg, lastFaceMsg, clsVars>>
  /\ UNCHANGED <<subscribers, lastPublish, now, callVars, nPublished,
                 asrAvailable, extVars>>

\* onFinal callback of the recognizer (recognition.onresult, a final result)
AsrFinal(seg) ==
  /\ asrIsRunning
  /\ transcriptFinal' = Append(transcriptFinal, seg)
  /\ wordTimestamps' = wordTimestamps \o [i \in 1..Len(Split(seg)) |-> now]
  /\ fillerCount' = fillerCount + Fillers(seg)
  /\ transcriptInterim' = <<>>
  /\ lastResult' = "final"
  /\ finalTimes' = Append(finalTimes, now)
  /\ restarts' = 0
  /\ UNCHANGED <<rmsHistory, lastEmotions>>
  /\ nEvents' = nEvents + 1
  /\ UNCHANGED <<isRunning, startTime, endTime, stream, mediaRecorder,
                 audioContext, audioWorkletNode, latestAudioData, faceWorker,
                 faceLoopId, latestFaceData, allMetrics,
                 metricsIntervalId, videoElement, envVars, repeatedTeardown, runningSince,
                 stoppedClean, stoppedSince, lastAudioMsg, lastFaceMsg,
                 subscribers, lastPublish, now, callVars, nPublished, asrAvailable>>
  /\ IF seg # <<>>
     THEN /\ ClassifyGoEmotions
          /\ classifying' = classifying
                             \cup {[seg |-> nEvents + 1, old |-> FALSE]}
     ELSE UNCHANGED <<emoVars, classifying>>
  /\ UNCHANGED <<emoFrom, doneMax>>
  /\ UNCHANGED <<capturing, asrErrors, lastAsrError, blinkVars,
                 workerVars, frameFailed, chartVars, panelVars, peerVars, pickVars>>

\* a call of initGoEmotions() from outside the controller (getEmotionPipeline)
InitCall ==
  /\ InitGoEmotions
  /\ UNCHANGED <<awaitingInit, awaitingPipe, classifyFailed>>
  /\ UNCHANGED <<ctlVars, envVars, histVars, subscribers, lastPublish, now,
                 callVars, nPublished, nEvents, asrAvailable, capturing,
                 asrErrors, lastAsrError, blinkVars,
                 workerVars, frameFailed, chartVars, panelVars, peerVars, pickVars>>

\* the load resolves: _pipeReady = true; the classifications that awaited
\* initGoEmotions() go on to pipe(text)
LoadSucceed ==
  /\ loading > 0
  /\ pipePromise' = "fulfilled" /\ pipeReady' = TRUE
  /\ loading' = loading - 1 /\ lastLoad' = "succeeded"
  /\ awaitingPipe' = awaitingPipe + awaitingInit /\ awaitingInit' = 0
  /\ UNCHANGED <<initCalls, classifyFailed>>
  /\ UNCHANGED <<ctlVars, envVars, histVars, subscribers, lastPublish, now,
                 callVars, nPublished, nEvents, asrAvailable, capturing,
                 asrErrors, lastAsrError, blinkVars,
                 workerVars, frameFailed, chartVars, panelVars, peerVars, pickVars>>

\* the load rejects: the catch of the call that started it clears
\* _pipePromise and _pipeReady; the classifications that awaited it fail
\* (console.error, rethrow, console.warn in the controller's catch)
LoadFail ==
  /\ loading > 0
  /\ pipePromise' = "null" /\ pipeReady' = FALSE
  /\ loading' = loading - 1 /\ lastLoad' = "failed"
  /\ classifyFailed' = classifyFailed + awaitingInit /\ awaitingInit' = 0
  /\ classifying' = IF awaitingInit > 0 THEN {} ELSE classifying
  /\ UNCHANGED <<initCalls, awaitingPipe, emoFrom, doneMax>>
  /\ UNCHANGED <<ctlVars, envVars, sessVars, subscribers, lastPublish, now,
                 callVars, nPublished, nEvents, asrAvailable, capturing,
                 asrErrors, lastAsrError, blinkVars,
                 workerVars, frameFailed, chartVars, panelVars, peerVars, pickVars>>

\* pipe(text) resolves: classifyEmotions(text).then(emotions => ...)
ClassifyResolve(emotions) ==
  /\ awaitingPipe > 0
  /\ awaitingPipe' = awaitingPipe - 1
  /\ lastEmotions' = emotions
  /\ \E c \in classifying :
       /\ classifying' = classifying \ {c}
       /\ emoFrom' = c
       /\ doneMax' = IF c.seg > doneMax THEN c.seg ELSE doneMax
  /\ UNCHANGED <<isRunning, startTime, endTime, stream, mediaRecorder,
                 audioContext, audioWorkletNode, latestAudioData, faceWorker,
                 faceLoopId, latestFaceData, transcriptFinal, fillerCount,
                 allMetrics, metricsIntervalId, videoElement, wordTimestamps,
                 rmsHistory>>
  /\ UNCHANGED <<pipePromise, pipeReady, loading, lastLoad, initCalls,
                 awaitingInit, classifyFailed>>
  /\ UNCHANGED <<envVars, sessVars, subscribers, lastPublish, now, callVars,
                 nPublished, nEvents, asrAvailable, capturing, asrErrors,
                 lastAsrError, blinkVars,
                 workerVars, frameFailed, chartVars, panelVars, peerVars, pickVars>>

ClassifyRejectClearsCache ==
  /\ awaitingPipe > 0
  /\ awaitingPipe' = awaitingPipe - 1
  /\ classifyFailed' = classifyFailed + 1
  /\ lastEmotions' = <<>>
  /\ \E c \in classifying : classifying' = classifying \ {c}
  /\ UNCHANGED <<emoFrom, doneMax>>
  /\ UNCHANGED <<isRunning, startTime, endTime, stream, mediaRecorder,
                 audioContext, audioWorkletNode, latestAudioData, faceWorker,
                 faceLoopId, latestFaceData, transcriptFinal, fillerCount,
                 allMetrics, metricsIntervalId, videoElement, wordTimestamps,
                 rmsHistory>>
  /\ UNCHANGED <<pipePromise, pipeReady, loading, lastLoad, initCalls,
                 awaitingInit>>
  /\ UNCHANGED <<envVars, sessVars, subscribers, lastPublish, now, callVars,
                 nPublished, nEvents, asrAvailable, capturing, asrErrors,
                 lastAsrError, blinkVars,
                 workerVars, frameFailed, chartVars, panelVars, peerVars, pickVars>>

\* pipe(text) rejects: console.error and rethrow in classifyEmotions,
\* console.warn in the catch of onFinal
ClassifyReject ==
  /\ awaitingPipe > 0
  /\ awaitingPipe' = awaitingPipe - 1
  /\ classifyFailed' = classifyFailed + 1
  /\ \E c \in classifying : classifying' = classifying \ {c}
  /\ UNCHANGED <<emoFrom, doneMax>>
  /\ UNCHANGED <<pipePromise, pipeReady, loading, lastLoad, initCalls,
                 awaitingInit>>
  /\ UNCHANGED <<ctlVars, envVars, sessVars, subscribers, lastPublish, now,
                 callVars, nPublished, nEvents, asrAvailable, capturing,
                 asrErrors, lastAsrError, blinkVars,
                 workerVars, frameFailed, chartVars, panelVars, peerVars, pickVars>>

\* recognition.onend: the recognizer has ended; it is started again while the
\* service is running (restartOk: recognition.start() does not throw)
RecognizerEnd(restartOk) ==
  /\ recognizing
  /\ recognizing' = (asrIsRunning /\ restartOk)
  /\ restarts' = IF asrIsRunning /\ restartOk THEN restarts + 1 ELSE restarts
  /\ UNCHANGED <<ctlVars, liveTracks, openContexts, audioNodes, connectedNodes,
                 liveWorkers, analysisHandler, liveLoops, liveTimers, recording,
                 videoSrc, asrIsRunning, framesOutstanding, repeatedTeardown,
                 runningSince, stoppedClean, stoppedSince, finalTimes,
                 lastAudioMsg, lastFaceMsg, clsVars, transcriptInterim, lastResult,
                 subscribers, lastPublish, now, callVars, nPublished, nEvents,
                 asrAvailable, extVars>>

\* recognition.onerror: 'no-speech' is ignored, any other error goes to the
\* controller's onError callback, which logs it (console.warn)
RecognizerError(err) ==
  /\ recognizing
  /\ asrErrors' = asrErrors + 1
  /\ lastAsrError' = err
  /\ UNCHANGED <<ctlVars, envVars, histVars, subscribers, lastPublish, now,
                 callVars, nPublished, nEvents, asrAvailable, capturing,
                 emoVars, blinkVars,
                 workerVars, frameFailed, chartVars, panelVars, peerVars, pickVars>>

\* MetricsBus.subscribe(callback): a Set, so adding a member again is a no-op
Subscribe(s) ==
  /\ subscribers' = IF InSeq(s, subscribers) THEN subscribers
                    ELSE Append(subscribers, s)
  /\ subscriptions' = [subscriptions EXCEPT ![s] = @ + 1]
  /\ UNCHANGED <<ctlVars, envVars, histVars, lastPublish, now, callVars,
                 nPublished, nEvents, asrAvailable>>
  /\ UNCHANGED <<extCore, chartVars, panelVars, viaPeer, peerRunning,
                 pickVars>>

\* the function returned by subscribe()
Unsubscribe(s) ==
  /\ subscribers' = Without(subscribers, s)
  /\ subscriptions' = [subscriptions EXCEPT ![s] = IF @ > 0 THEN @ - 1 ELSE 0]
  /\ UNCHANGED <<ctlVars, envVars, histVars, lastPublish, now, callVars,
                 nPublished, nEvents, asrAvailable>>
  /\ UNCHANGED <<extCore, chartVars, panelVars, viaPeer, peerRunning,
                 pickVars>>

\* ------------------------------------------------- classifyGoEmotions
\* [...raw].sort((a, b) => b.score - a.score): descending by score, entries
\* of equal score in the order they have in raw (Array.prototype.sort is
\* stable)
InsertDesc(sorted, e) ==
  LET k == Cardinality({i \in 1..Len(sorted) : sorted[i].score >= e.score})
  IN SubSeq(sorted, 1, k) \o <<e>> \o SubSeq(sorted, k + 1, Len(sorted))

RECURSIVE SortDesc(_)
SortDesc(raw) ==
  IF raw = <<>> THEN <<>>
  ELSE InsertDesc(SortDesc(SubSeq(raw, 1, Len(raw) - 1)), raw[Len(raw)])

\* for (const emotion of sorted) if (emotion.score >= threshold) picked.push
RECURSIVE PickPassing(_, _)
PickPassing(sorted, threshold) ==
  IF sorted = <<>> THEN <<>>
  ELSE IF Head(sorted).score >= threshold
       THEN <<Head(sorted)>> \o PickPassing(Tail(sorted), threshold)
       ELSE PickPassing(Tail(sorted), threshold)

\* for (i = 0; i < Math.min(topK, sorted.length); i++)
\*   if (!picked.find(p => p.label === sorted[i].label)) picked.push(sorted[i])
\* from the i-th entry of sorted on, with limit = Math.min(topK, sorted.length)
RECURSIVE PadTop(_, _, _, _)
PadTop(picked, sorted, i, limit) ==
  IF i > limit THEN picked
  ELSE PadTop(IF \E j \in 1..Len(picked) : picked[j].label = sorted[i].label
              THEN picked ELSE Append(picked, sorted[i]),
              sorted, i + 1, limit)

Min(a, b) == IF a < b THEN a ELSE b

PickedUnsorted(raw, threshold, topK) ==
  PadTop(PickPassing(raw, threshold), raw, 1, Min(topK, Len(raw)))

\* what classifyGoEmotions returns when pipe(text) has returned raw
Picked(raw, threshold, topK) ==
  LET sorted == SortDesc(raw)
  IN PadTop(PickPassing(sorted, threshold), sorted, 1, Min(topK, Len(sorted)))

\* the lists the model returns: one entry for each of some labels
RECURSIVE RawLists(_)
RawLists(labels) ==
  {<<>>} \cup
  UNION {{<<[label |-> l, score |-> sc]>> \o q : q \in RawLists(labels \ {l})}
           : <<l, sc>> \in labels \X Scores}

\* classifyGoEmotions(text, threshold, topK) for a text that is not blank,
\* from the value of `await pipe(text)` on
ClassifyPick(raw, threshold, topK) ==
  /\ goInput' = [raw |-> raw, threshold |-> threshold, topK |-> topK]
  /\ goOutput' = Picked(raw, threshold, topK)
  /\ UNCHANGED <<ctlVars, envVars, histVars, subscribers, lastPublish, now,
                 callVars, nPublished, nEvents, asrAvailable>>
  /\ UNCHANGED <<extCore, chartVars, panelVars, peerVars>>

\* ------------------------------------------------- a second controller
\* The controller that a second createAnalyticsController() returns runs the
\* same code on state of its own; of that state the model keeps isRunning,
\* and its start() and stop() are taken as one step each. What the two
\* controllers share is the module's metricsBus and the window.

\* onMetrics(cb) of the second controller: metricsBus.subscribe(cb)
PeerOnMetrics(s) ==
  /\ subscribers' = IF InSeq(s, subscribers) THEN subscribers
                    ELSE Append(subscribers, s)
  /\ viaPeer' = viaPeer \cup {s}
  /\ UNCHANGED <<ctlVars, envVars, histVars, lastPublish, now, callVars,
                 nPublished, nEvents, asrAvailable>>
  /\ UNCHANGED <<extCore, chartVars, panelVars, subscriptions, peerRunning,
                 pickVars>>

\* start() and stop() of the second controller, called on it directly
PeerSet(running) ==
  /\ peerRunning # running
  /\ peerRunning' = running
  /\ UNCHANGED <<ctlVars, envVars, histVars, subscribers, lastPublish, now,
                 callVars, nPublished, nEvents, asrAvailable>>
  /\ UNCHANGED <<extCore, chartVars, panelVars, subscriptions, viaPeer,
                 pickVars>>

\* a snapshot of the second controller
PeerEvent == [NoEvent EXCEPT !.t = 0, !.seq = 1]

\* the interval timer of the second controller fires: its publishMetrics()
\* ends with metricsBus.publish(event)
PeerTick ==
  /\ peerRunning
  /\ lastPublish' = [event |-> PeerEvent, by |-> "peer", classifying |-> 0]
                    @@ Publish(subscribers)
  /\ HookOnEvent(PeerEvent)
  /\ UNCHANGED <<ctlVars, envVars, histVars, subscribers, now, callVars,
                 nPublished, nEvents, asrAvailable>>
  /\ UNCHANGED <<extCore, panelVars, peerVars, pickVars>>

\* window.dispatchEvent(new CustomEvent('creao:command', {detail: {type}})):
\* the listener that each createAnalyticsController() added runs
\* controller.start() or controller.stop() on its controller
CommandStart ==
  /\ StartCallBody(FALSE)
  /\ peerRunning' = TRUE
  /\ UNCHANGED <<extCore, chartVars, panelVars, subscriptions, viaPeer,
                 pickVars>>

CommandStop ==
  /\ StopCallBody
  /\ peerRunning' = FALSE
  /\ UNCHANGED <<extCore, chartVars, panelVars, subscriptions, viaPeer,
                 pickVars>>

\* ---------------------------------------------------------- specifications
NextCalls ==
  \/ \E v \in BOOLEAN : StartCall(v)
  \/ \E c \in Slots : GumResolve(c)
  \/ \E c \in Slots : GumReject(c)
  \/ \E c \in Slots : PlayResolve(c)
  \/ \E c \in Slots : PlayReject(c)
  \/ \E c \in Slots : WorkletResolve(c)
  \/ \E c \in Slots : WorkletReject(c)
  \/ \E c \in Slots : FaceInitResolve(c)
  \/ \E c \in Slots : FaceInitReject(c)
  \/ \E c \in Slots : CatchCloseSettle(c)
  \/ StopCall
  \/ \E c \in Slots : StopCloseSettle(c)

TimerFires == \E id \in Ids : (nPublished < MaxTicks /\ Tick(id))

\* Spec: every interleaving of start() and stop() calls (overlapping ones
\* included) with the aggregation timer and the clock.
Next ==
  \/ NextCalls
  \/ TimerFires
  \/ Advance

Spec == Init /\ [][Next]_vars

SessionTimerFires == \E id \in Ids : (nPublished < MaxSessionTicks /\ Tick(id))

\* SpecSession: Spec together with the producers that fill the session state.
\* The clock stands still: what SpecSession is checked for, which calls are
\* accepted in which state, does not depend on the time.
NextSession ==
  \/ NextCalls
  \/ SessionTimerFires
  \/ (nEvents < MaxEvents /\ \E v \in AudioVals : AudioMessage(v))
  \/ (nEvents < MaxEvents /\ \E v \in FaceVals : FaceMessage(v))
  \/ (nEvents < MaxEvents /\ \E seg \in Segments : AsrFinal(seg))

SpecSession == Init /\ [][NextSession]_vars

\* SpecBus: one session at a time, with subscribers coming and going.
NextBus ==
  \/ (~StartInFlight /\ ~StopInFlight /\ \E v \in BOOLEAN : StartCall(v))
  \/ \E c \in Slots : GumResolve(c)
  \/ \E c \in Slots : PlayResolve(c)
  \/ \E c \in Slots : WorkletResolve(c)
  \/ \E c \in Slots : FaceInitResolve(c)
  \/ (~StartInFlight /\ ~StopInFlight /\ StopCall)
  \/ \E c \in Slots : StopCloseSettle(c)
  \/ TimerFires
  \/ \E s \in Subs : (subscriptions[s] < MaxSubscriptions /\ Subscribe(s))
  \/ \E s \in Subs : Unsubscribe(s)

SpecBus == Init /\ [][NextBus]_vars

\* SpecMetrics: sessions started one at a time, with the producers, the timer
\* and the clock.
NextMetrics ==
  \/ (~StartInFlight /\ ~StopInFlight /\ \E v \in BOOLEAN : StartCall(v))
  \/ \E c \in Slots : GumResolve(c)
  \/ \E c \in Slots : PlayResolve(c)
  \/ \E c \in Slots : WorkletResolve(c)
  \/ \E c \in Slots : FaceInitResolve(c)
  \/ TimerFires
  \/ AdvanceTo(MaxMetricsTime)
  \/ (nEvents < MaxMetricsEvents /\ \E v \in AudioVals : AudioMessage(v))
  \/ (nEvents < MaxMetricsEvents /\ \E v \in FaceVals : FaceMessage(v))
  \/ (nEvents < MaxMetricsEvents /\ \E seg \in Segments : AsrFinal(seg))

SpecMetrics == Init /\ [][NextMetrics]_vars

\* SpecFace: sessions with a video element, started and stopped one call at a
\* time, with the capture loop and the face worker's answers.
NextFace ==
  \/ (~StartInFlight /\ ~StopInFlight /\ StartCall(TRUE))
  \/ \E c \in Slots : GumResolve(c)
  \/ \E c \in Slots : PlayResolve(c)
  \/ \E c \in Slots : WorkletResolve(c)
  \/ \E c \in Slots : FaceInitResolve(c)
  \/ (~StartInFlight /\ ~StopInFlight /\ StopCall)
  \/ \E c \in Slots : StopCloseSettle(c)
  \/ \E loop \in Ids, due, bitmapOk \in BOOLEAN :
       (framesOutstanding + capturing < MaxFrames
          /\ CaptureFrame(loop, due, bitmapOk))
  \/ BitmapReady
  \/ (framesOutstanding > 0 /\ nEvents < MaxFaceEvents
        /\ \E v \in FaceVals : FaceMessage(v))

SpecFace == Init /\ [][NextFace]_vars

\* SpecASR: sessions without a video element, started and stopped one call at
\* a time, with the recognizer's end, error and result events.
NextASR ==
  \/ (~StartInFlight /\ ~StopInFlight /\ StartCall(FALSE))
  \/ \E c \in Slots : GumResolve(c)
  \/ \E c \in Slots : WorkletResolve(c)
  \/ (~StartInFlight /\ ~StopInFlight /\ StopCall)
  \/ \E c \in Slots : StopCloseSettle(c)
  \/ (restarts < MaxRestarts /\ \E restartOk \in BOOLEAN : RecognizerEnd(restartOk))
  \/ (asrErrors < MaxAsrErrors /\ \E err \in AsrErrorCodes : RecognizerError(err))
  \/ (nEvents < MaxEvents /\ \E seg \in Segments : AsrFinal(seg))
  \/ (nPublished < MaxSessionTicks /\ \E id \in Ids : Tick(id))
  \/ \E s \in Subs : (~InSeq(s, subscribers) /\ Subscribe(s))

SpecASR == Init /\ [][NextASR]_vars

\* updateBlinkRate(ear, currentTime) of the face worker, for the frame that
\* follows the frames of earSeq
UpdateBlinkRate(ear) ==
  /\ blinkCount' = IF lastEyeAspectRatio > BLINK_THRESHOLD /\ ear <= BLINK_THRESHOLD
                    THEN blinkCount + 1 ELSE blinkCount
  /\ lastEyeAspectRatio' = ear
  /\ earSeq' = Append(earSeq, ear)
  /\ LET currentTime == Len(earSeq') * FrameMs
         pushed == IF lastEyeAspectRatio > BLINK_THRESHOLD /\ ear <= BLINK_THRESHOLD
                   THEN Append(blinkTimestamps, currentTime) ELSE blinkTimestamps
     IN blinkTimestamps' = DropWhileOld(pushed, currentTime - WINDOW_MS)
  /\ UNCHANGED <<ctlVars, envVars, histVars, subscribers, lastPublish, now,
                 callVars, nPublished, nEvents, asrAvailable, capturing,
                 asrErrors, lastAsrError, emoVars, workerVars, frameFailed, chartVars, panelVars, peerVars, pickVars>>

\* the window of gazePositions after the eye centre of a frame is pushed
\* (calculateGazeJitter: push, then shift while the first entry is too old)
RECURSIVE DropWhileOldGaze(_, _)
DropWhileOldGaze(q, cutoff) ==
  IF q # <<>> /\ Head(q).t < cutoff THEN DropWhileOldGaze(Tail(q), cutoff) ELSE q

\* calculateGazeJitter's result, 1000 * sqrt(variance), given by its variance
\* as a fraction: sum((x - meanX)^2 + (y - meanY)^2) / n
GazeJitter(g) ==
  IF Len(g) < 2 THEN [num |-> 0, den |-> 1]
  ELSE LET n == Len(g)
           xs == [i \in 1..n |-> g[i].x]
           ys == [i \in 1..n |-> g[i].y]
           xxs == [i \in 1..n |-> g[i].x * g[i].x]
           yys == [i \in 1..n |-> g[i].y * g[i].y]
       IN [num |-> n * Sum(xxs) - Sum(xs) * Sum(xs)
                   + n * Sum(yys) - Sum(ys) * Sum(ys),
           den |-> n * n]

\* analyzeFrame(bitmap) in an initialized worker, dt ms after the last cycle,
\* and the postMessage of its result
AnalyzeFrame(dt, found) ==
  /\ workerNow' = workerNow + dt
  /\ cycles' = cycles + 1
  /\ IF found \in Faces
     THEN LET blink == lastEyeAspectRatio > BLINK_THRESHOLD
                       /\ found.ear <= BLINK_THRESHOLD
              point == [x |-> found.x, y |-> found.y, t |-> workerNow']
          IN /\ lastOutcome' = "face"
             /\ blinkCount' = IF blink THEN blinkCount + 1 ELSE blinkCount
             /\ blinkInserted' = IF blink THEN Append(blinkInserted, workerNow')
                                 ELSE blinkInserted
             /\ blinkTimestamps' =
                  DropWhileOld(IF blink THEN Append(blinkTimestamps, workerNow')
                               ELSE blinkTimestamps, workerNow' - WINDOW_MS)
             /\ lastEyeAspectRatio' = found.ear
             /\ earSeq' = Append(earSeq, found.ear)
             /\ gazeInserted' = Append(gazeInserted, point)
             /\ gazePositions' = DropWhileOldGaze(Append(gazePositions, point),
                                                  workerNow' - GAZE_WINDOW_MS)
             /\ workerResult' = [yaw |-> found.yaw, pitch |-> found.pitch,
                                 blinkPerMin |-> Len(blinkTimestamps'),
                                 smile |-> found.smile,
                                 gazeJitter |-> GazeJitter(gazePositions')]
     ELSE /\ lastOutcome' = IF found = NoFace THEN "noface" ELSE "error"
          /\ workerResult' = Neutral
          /\ UNCHANGED <<blinkVars, gazePositions, blinkInserted, gazeInserted>>
  /\ UNCHANGED <<ctlVars, envVars, histVars, subscribers, lastPublish, now,
                 callVars, nPublished, nEvents, asrAvailable, capturing,
                 asrErrors, lastAsrError, emoVars, frameFailed, chartVars, panelVars, peerVars, pickVars>>

\* SpecWorker: an initialized face worker analyses one frame after another.
NextWorker ==
  cycles < MaxCycles
    /\ \E dt \in FrameSteps, found \in Faces \cup {NoFace, EstimateThrows} :
         AnalyzeFrame(dt, found)

SpecWorker == Init /\ [][NextWorker]_vars

\* SpecWindows: the rolling windows of the worker and of the controller: the
\* analysis cycles of SpecWorker for faces that differ in the eye aspect ratio
\* only, next to one session with final segments, the clock and ticks.
WindowFaces == {f \in Faces : f.ear # BLINK_THRESHOLD /\ f.x = 0}

NextWindows ==
  \/ (cycles < MaxCycles
       /\ \E dt \in FrameSteps, found \in WindowFaces : AnalyzeFrame(dt, found))
  \/ (nCalls = 0 /\ StartCall(FALSE))
  \/ \E c \in Slots : GumResolve(c)
  \/ \E c \in Slots : WorkletResolve(c)
  \/ AdvanceTo(MaxMetricsTime)
  \/ (nEvents < MaxMetricsEvents /\ \E seg \in Segments : AsrFinal(seg))
  \/ (nPublished < MaxWindowTicks /\ \E id \in Ids : Tick(id))

SpecWindows == Init /\ [][NextWindows]_vars

\* SpecFaceLoop: one session with a video element: the capture loop posts
\* frames, the worker analyses them one at a time and the controller receives
\* each result before the next analysis ends (cycles - nEvents results are on
\* their way).
NextFaceLoop ==
  \/ (nCalls = 0 /\ StartCall(TRUE))
  \/ \E c \in Slots : GumResolve(c)
  \/ \E c \in Slots : PlayResolve(c)
  \/ \E c \in Slots : WorkletResolve(c)
  \/ \E c \in Slots : FaceInitResolve(c)
  \/ (~StartInFlight /\ ~StopInFlight /\ StopCall)
  \/ \E c \in Slots : StopCloseSettle(c)
  \/ \E loop \in Ids, due, bitmapOk \in BOOLEAN :
       (framesOutstanding + capturing < MaxFrames
          /\ CaptureFrame(loop, due, bitmapOk))
  \/ BitmapReady
  \/ BitmapReject
  \/ (framesOutstanding > 0 /\ cycles = nEvents /\ cycles < MaxLoopCycles
        /\ \E dt \in FrameSteps, found \in Faces \cup {NoFace, EstimateThrows} :
             AnalyzeFrame(dt, found))
  \/ (cycles > nEvents /\ FaceMessage(workerResult))

SpecFaceLoop == Init /\ [][NextFaceLoop]_vars

\* Date.now() advances; a timer that is due fires first
AdvanceInit ==
  /\ \A c \in DOMAIN calls : ~FaceInitDue(c)
  /\ AdvanceTo(MaxInitTime)

\* SpecInit: start() and stop() one call at a time, with the clock and the
\* timeout of the face worker init.
NextInit ==
  \/ (~StartInFlight /\ ~StopInFlight /\ \E v \in BOOLEAN : StartCall(v))
  \/ \E c \in Slots : GumResolve(c)
  \/ \E c \in Slots : GumReject(c)
  \/ \E c \in Slots : PlayResolve(c)
  \/ \E c \in Slots : PlayReject(c)
  \/ \E c \in Slots : WorkletResolve(c)
  \/ \E c \in Slots : WorkletReject(c)
  \/ \E c \in Slots : FaceInitResolve(c)
  \/ \E c \in Slots : FaceInitReject(c)
  \/ \E c \in Slots : FaceInitTimeout(c)
  \/ \E c \in Slots : CatchCloseSettle(c)
  \/ (~StartInFlight /\ ~StopInFlight /\ StopCall)
  \/ \E c \in Slots : StopCloseSettle(c)
  \/ AdvanceInit

SpecInit == Init /\ [][NextInit]_vars

\* SpecBlink: the face worker analyses frames with a face, one after another.
NextBlink ==
  Len(earSeq) < MaxBlinkFrames /\ \E ear \in EarVals : UpdateBlinkRate(ear)

SpecBlink == Init /\ [][NextBlink]_vars

\* SpecEmotion: sessions started and stopped one call at a time, final
\* segments, the loading of the emotion model and the classifications.
NextEmotion ==
  \/ (~StartInFlight /\ ~StopInFlight /\ StartCall(FALSE))
  \/ \E c \in Slots : GumResolve(c)
  \/ \E c \in Slots : WorkletResolve(c)
  \/ (~StartInFlight /\ ~StopInFlight /\ StopCall)
  \/ \E c \in Slots : StopCloseSettle(c)
  \/ (nPublished < MaxEmotionTicks /\ \E id \in Ids : Tick(id))
  \/ (nEvents < MaxEmotionEvents /\ \E seg \in Segments : AsrFinal(seg))
  \/ (initCalls < MaxInitCalls /\ InitCall)
  \/ LoadSucceed
  \/ LoadFail
  \/ \E emotions \in Emotions : ClassifyResolve(emotions)
  \/ ClassifyReject

SpecEmotion == Init /\ [][NextEmotion]_vars

\* SpecDuration: sessions started and stopped one call at a time while the
\* clock advances.
NextDuration ==
  \/ (~StartInFlight /\ ~StopInFlight /\ StartCall(FALSE))
  \/ \E c \in Slots : GumResolve(c)
  \/ \E c \in Slots : WorkletResolve(c)
  \/ (~StartInFlight /\ ~StopInFlight /\ StopCall)
  \/ \E c \in Slots : StopCloseSettle(c)
  \/ AdvanceTo(MaxDurationTime)

SpecDuration == Init /\ [][NextDuration]_vars

\* SpecTwo: two controllers, each with subscribers of its own (a callback is
\* given to one controller only), started and stopped by direct calls and by
\* 'creao:command' events.
NextTwo ==
  \/ (~StartInFlight /\ ~StopInFlight /\ StartCall(FALSE))
  \/ \E c \in Slots : GumResolve(c)
  \/ \E c \in Slots : WorkletResolve(c)
  \/ (~StartInFlight /\ ~StopInFlight /\ StopCall)
  \/ \E c \in Slots : StopCloseSettle(c)
  \/ (nPublished < MaxSessionTicks /\ \E id \in Ids : Tick(id))
  \/ \E s \in Subs :
       (subscriptions[s] = 0 /\ s \notin viaPeer /\ Subscribe(s))
  \/ \E s \in Subs :
       (subscriptions[s] = 0 /\ s \notin viaPeer /\ PeerOnMetrics(s))
  \/ \E running \in BOOLEAN : PeerSet(running)
  \/ PeerTick
  \/ (~StartInFlight /\ ~StopInFlight /\ CommandStart)
  \/ (~StartInFlight /\ ~StopInFlight /\ CommandStop)

SpecTwo == Init /\ [][NextTwo]_vars

\* SpecTranscript: sessions started and stopped one call at a time, with the
\* interim and final results of the recognizer.
NextTranscript ==
  \/ (~StartInFlight /\ ~StopInFlight /\ StartCall(FALSE))
  \/ \E c \in Slots : GumResolve(c)
  \/ \E c \in Slots : WorkletResolve(c)
  \/ (~StartInFlight /\ ~StopInFlight /\ StopCall)
  \/ \E c \in Slots : StopCloseSettle(c)
  \/ (nEvents < MaxTranscriptEvents /\ \E text \in Segments : AsrInterim(text))
  \/ (nEvents < MaxTranscriptEvents /\ \E seg \in Segments : AsrFinal(seg))

SpecTranscript == Init /\ [][NextTranscript]_vars

\* SpecPick: a call of classifyGoEmotions with any of the results the model
\* can return for up to MaxLabels labels (one call with a result that is not
\* empty in a behaviour).
NextPick ==
  /\ goInput.raw = <<>>
  /\ \E raw \in RawLists(ScoredLabels), threshold \in Thresholds,
        topK \in TopKs :
       Len(raw) <= MaxLabels /\ ClassifyPick(raw, threshold, topK)

SpecPick == Init /\ [][NextPick]_vars

\* SpecChart: one session observed by the useMetrics hook, with the clock.
NextChart ==
  \/ (nCalls = 0 /\ StartCall(FALSE))
  \/ \E c \in Slots : GumResolve(c)
  \/ \E c \in Slots : WorkletResolve(c)
  \/ MountHook
  \/ (nPublished < MaxChartTicks /\ \E id \in Ids : Tick(id))
  \/ (nEvents < MaxEvents /\ \E seg \in Segments : AsrFinal(seg))
  \/ AdvanceTo(MaxChartTime)

SpecChart == Init /\ [][NextChart]_vars

\* ------------------------------------------------------ AnalyticsPanel
coreVars == <<ctlVars, envVars, histVars, subscribers, lastPublish, now,
              callVars, nPublished, nEvents, asrAvailable>>

\* videoRef.current: the <video> is rendered only while the panel's isRunning
\* is true (AnalyticsPanel.tsx 152-158)
VideoRef == panelRunning

\* handleEvent: 'connected'
Connect ==
  /\ ~isInterviewRunning
  /\ isInterviewRunning' = TRUE /\ effectDue' = TRUE
  /\ connects' = connects + 1
  /\ UNCHANGED <<panelRunning, finalizing, handled, summaries>>
  /\ UNCHANGED <<coreVars, extCore, chartVars, peerVars, pickVars>>

\* handleEvent: 'disconnected' or 'error'
Disconnect ==
  /\ isInterviewRunning
  /\ isInterviewRunning' = FALSE /\ effectDue' = TRUE
  /\ UNCHANGED <<panelRunning, finalizing, handled, summaries, connects>>
  /\ UNCHANGED <<coreVars, extCore, chartVars, peerVars, pickVars>>

\* A settled controller call whose continuation in the panel has not run.
ContinuationDue == handled < nCalls - InFlight

\* The start/stop effect: handleStart() when the interview is running,
\* finalizeSession() when it is not and the panel is running.
PanelEffect ==
  /\ effectDue /\ ~ContinuationDue
  /\ effectDue' = FALSE
  /\ UNCHANGED <<isInterviewRunning, panelRunning, handled, connects,
                 extCore, chartVars, peerVars, pickVars>>
  /\ IF isInterviewRunning
     THEN IF panelRunning \/ finalizing
          THEN UNCHANGED <<coreVars, finalizing, summaries>>
          ELSE /\ StartCallBody(VideoRef)
               /\ summaries' = 0
               /\ UNCHANGED finalizing
     ELSE IF panelRunning /\ ~finalizing
          THEN /\ finalizing' = TRUE
               /\ StopCallBody
               /\ UNCHANGED summaries
          ELSE UNCHANGED <<coreVars, finalizing, summaries>>

\* The code after `await controller.start()` in handleStart and after
\* `await controller.stop()` in finalizeSession, with its catch and finally.
PanelContinue ==
  /\ ContinuationDue
  /\ handled' = handled + 1
  /\ UNCHANGED <<coreVars, extCore, chartVars, peerVars, pickVars, connects>>
  /\ IF lastSettled.kind = "start"
     THEN /\ panelRunning' = (panelRunning \/ lastSettled.outcome = "resolved")
          /\ effectDue' = (effectDue \/ panelRunning' # panelRunning)
          /\ UNCHANGED <<isInterviewRunning, finalizing, summaries>>
     ELSE /\ finalizing' = FALSE
          /\ IF lastSettled.outcome = "resolved"
             THEN /\ panelRunning' = FALSE
                  /\ summaries' = summaries + 1
                  /\ isInterviewRunning' = FALSE
                  /\ effectDue' = TRUE
             ELSE UNCHANGED <<panelRunning, summaries, isInterviewRunning,
                              effectDue>>

\* SpecPanel: the page connects and disconnects the interview; the panel
\* drives the controller; device access, the audio worklet and the recorder
\* succeed. The panel's continuations and effects run before the next event.
PanelQuiet == ~effectDue /\ ~ContinuationDue

\* audioWorklet.addModule resolves where the recognizer, the recorder and the
\* worklet source can be created
WorkletResolveOk(c) ==
  /\ AtStart(c, "worklet")
  /\ StartStep(c, AfterWorklet(Cur, NewIds, Opts(c), now, asrAvailable,
                               TRUE, TRUE, TRUE))

NextPanel ==
  \/ (PanelQuiet /\ connects < MaxConnects /\ Connect)
  \/ (PanelQuiet /\ Disconnect)
  \/ PanelEffect
  \/ PanelContinue
  \/ (PanelQuiet /\ \E c \in Slots : GumResolve(c))
  \/ (PanelQuiet /\ \E c \in Slots : WorkletResolveOk(c))
  \/ (PanelQuiet /\ \E c \in Slots : StopCloseSettle(c))
  \/ (PanelQuiet /\ nPublished < MaxPanelTicks /\ \E id \in Ids : Tick(id))

SpecPanel ==
  /\ Init /\ [][NextPanel]_vars
  /\ WF_vars(PanelEffect) /\ WF_vars(PanelContinue)
  /\ WF_vars(PanelQuiet /\ \E c \in Slots : GumResolve(c))
  /\ WF_vars(PanelQuiet /\ \E c \in Slots : WorkletResolveOk(c))
  /\ WF_vars(PanelQuiet /\ \E c \in Slots : StopCloseSettle(c))

\* ------------------------------------------------------------- properties
\* The step issues a call of kind k (start or stop).
Issued(k) ==
  /\ nCalls' = nCalls + 1
  /\ IF DOMAIN calls' = DOMAIN calls
     THEN lastSettled'.kind = k
     ELSE \E c \in DOMAIN calls' \ DOMAIN calls : calls'[c].kind = k

\* The call issued by the step settles within the step.
SettledAtOnce == DOMAIN calls' = DOMAIN calls

\* The step is a timer callback (publishMetrics).
Published == nPublished' = nPublished + 1

Occurrences(x, q) == Cardinality({i \in 1..Len(q) : q[i] = x})

\* C1: start() is accepted only in Idle: a start() issued while an earlier
\* start() has not settled, or while a stop() is in progress, is rejected and
\* changes nothing (no device acquired, no timer or worker, no session reset).
C1_StartOnlyInIdle ==
  [][(Issued("start") /\ (StartInFlight \/ StopInFlight))
       => (/\ SettledAtOnce
           /\ lastSettled'.outcome = "rejected"
           /\ UNCHANGED <<ctlVars, envVars>>)]_vars

\* C2: while Running (a start() has resolved and no stop() was called since) a
\* further start() rejects with 'Already running' and leaves the controller
\* state (history, transcript, filler count, caches, timer, stream) unchanged.
C2_StartWhileRunningRejected ==
  [][(Issued("start") /\ runningSince)
       => (/\ SettledAtOnce
           /\ lastSettled'.outcome = "rejected"
           /\ lastSettled'.error = "Already running"
           /\ UNCHANGED <<ctlVars, envVars>>)]_vars

\* a start() was rejected as already running, in a session that has published
\* a snapshot and received a producer message
C2_Witness ==
  /\ lastSettled.kind = "start" /\ lastSettled.error = "Already running"
  /\ lastSettled.published > 0 /\ lastSettled.events > 0
  /\ runningSince /\ allMetrics # <<>>
  /\ metricsIntervalId \in liveTimers /\ stream \in liveTracks

\* C3: a stop() issued while another stop() awaits its teardown resolves, and
\* no teardown step is performed twice on the same resource.
C3_ConcurrentStopSafe ==
  /\ (\E c \in DOMAIN calls : calls[c].kind = "stop" /\ calls[c].concurrent)
       => ~repeatedTeardown
  /\ (lastSettled.kind = "stop" /\ lastSettled.concurrent)
       => (lastSettled.outcome = "resolved" /\ ~repeatedTeardown)

\* C4: once a stop() has resolved, with no step of a start() since that stop()
\* was called, a further stop() resolves at once, performs no teardown and
\* changes no controller state (endTime included).
C4_SecondStopNoop ==
  [][(Issued("stop") /\ stoppedClean)
       => (/\ SettledAtOnce
           /\ lastSettled'.outcome = "resolved"
           /\ ~lastSettled'.didTeardown
           /\ UNCHANGED <<ctlVars, envVars>>)]_vars

\* a stop() issued after a completed stop of a session that had run, at a
\* later time than the recorded end time
C4_Witness ==
  /\ lastSettled.kind = "stop" /\ lastSettled.afterClean
  /\ lastSettled.outcome = "resolved"
  /\ ~lastSettled.didTeardown
  /\ mediaRecorder # Null /\ lastSettled.at > endTime

\* C5: a stop() one of whose teardown steps failed still resolves, having
\* stopped the recorder and the tracks, detached the video sink and cleared
\* the stream handle.
C5_TeardownFailureIsolated ==
  [][\A c \in DOMAIN calls :
       (calls[c].kind = "stop" /\ c \notin DOMAIN calls' /\ ~calls[c].closeOk)
         => (/\ lastSettled'.outcome = "resolved"
             /\ stream' = Null
             /\ mediaRecorder' \notin recording'
             /\ videoSrc' = Null)]_vars

\* C6: when a start() rejects because one of its steps failed, the controller
\* holds no stream, audio context, worker or timer and is not running.
C6_FailedStartReleasesAll ==
  [][\A c \in DOMAIN calls :
       (calls[c].kind = "start" /\ c \notin DOMAIN calls')
         => (lastSettled'.outcome = "rejected"
               => (/\ stream' = Null /\ audioContext' = Null
                   /\ faceWorker' = Null /\ metricsIntervalId' = Null
                   /\ ~isRunning'))]_vars

\* C7: at most one aggregation timer is active, and once a stop() has resolved
\* no snapshot is published until a start() succeeds.
C7_OneTimerNoTickAfterStop ==
  [][/\ Cardinality(liveTimers') <= 1
     /\ Published => ~stoppedSince]_vars

\* C8: publish invokes every subscriber that is live at the call exactly once,
\* throwing subscribers included, and no exception reaches the publisher.
C8_PublishReachesAll ==
  [][Published
       => (/\ ~lastPublish'.threw
           /\ \A s \in Subs :
                Occurrences(s, lastPublish'.invoked)
                  = IF InSeq(s, subscribers) THEN 1 ELSE 0
           /\ allMetrics' # <<>>
           /\ allMetrics'[Len(allMetrics')] = lastPublish'.event)]_vars

\* a publication delivered to a subscriber registered after a throwing one
C8_Witness ==
  /\ Len(lastPublish.invoked) >= 2
  /\ lastPublish.invoked[1] \in Throwing
  /\ lastPublish.invoked[2] \notin Throwing

\* C9: the history never exceeds MAX_METRICS_BUFFER; a tick on a full history
\* drops exactly the oldest snapshot and appends the new one last, so the
\* history holds the most recent snapshots in publication order.
C9_HistoryBounded ==
  [][/\ Len(allMetrics') <= MAX_METRICS_BUFFER
     /\ Published
          => allMetrics' =
               Append(IF Len(allMetrics) = MAX_METRICS_BUFFER
                      THEN Tail(allMetrics) ELSE allMetrics,
                      lastPublish'.event)
     /\ \A i \in 1..Len(allMetrics') :
          allMetrics'[i].seq = nPublished' - (Len(allMetrics') - i)]_vars

\* the history is full and its oldest snapshot has been evicted
C9_Witness ==
  /\ Len(allMetrics) = MAX_METRICS_BUFFER
  /\ allMetrics[1].seq > 1

\* C10: the elapsed time t of the snapshots of the history is non-negative
\* and non-decreasing, and the history is in publication order.
C10_ElapsedMonotonic ==
  \A i \in 1..Len(allMetrics) :
    /\ allMetrics[i].t >= 0
    /\ i > 1 => /\ allMetrics[i - 1].t <= allMetrics[i].t
                /\ allMetrics[i - 1].seq < allMetrics[i].seq

\* C11: in every published snapshot a modality's field is absent unless the
\* modality has produced a value in the session: wpm and fillers_per_min
\* before any final transcript result, pause_ratio before any audio result.
C11_AbsentUntilProduced ==
  LET e == lastPublish.event
  IN nPublished > 0 =>
       /\ e.transcript_final = <<>> =>
            (e.wpm = Absent /\ e.fillers_per_min = Absent)
       /\ e.rms = Null => e.pause_ratio = AbsentRatio

\* The words of the finalized segments that arrived within the trailing
\* window of WPM_WINDOW_SEC seconds before time t.
RECURSIVE WordsSpoken(_, _, _)
WordsSpoken(segs, times, t) ==
  IF segs = <<>> THEN 0
  ELSE (IF times[1] * SecPerUnit >= t * SecPerUnit - WPM_WINDOW_SEC
        THEN Len(Head(segs)) ELSE 0)
       + WordsSpoken(Tail(segs), Tail(times), t)

\* C12: at every tick where transcription is available, wpm equals
\* N * (60 / window seconds), N being the number of words of the final
\* segments that arrived within the trailing window (an empty segment has no
\* words).
C12_WpmCountsWindowWords ==
  [][(Published /\ asrAvailable)
       => lastPublish'.event.wpm * WPM_WINDOW_SEC
            = WordsSpoken(transcriptFinal, finalTimes, now) * 60]_vars

\* The loudness samples (rms || 0) of the last n snapshots of history h.
LastSamples(h, n) ==
  LET k == IF Len(h) < n THEN Len(h) ELSE n
  IN [i \in 1..k |->
        LET r == h[Len(h) - k + i].rms IN IF r = Null THEN 0 ELSE r]

\* C13: at every tick pause_ratio is the fraction of the loudness samples of
\* the trailing pause window (PauseWindowTicks ticks) that lie below twice the
\* noise floor, and it lies within [0, 1].
C13_PauseRatioOverWindow ==
  [][Published
       => LET r == lastPublish'.event.pause_ratio
              w == LastSamples(allMetrics', PauseWindowTicks)
              low == Cardinality({i \in 1..Len(w) : w[i] < RMS_NOISE_FLOOR * 2})
          IN /\ r.den > 0 /\ 0 <= r.num /\ r.num <= r.den
             /\ r.num * Len(w) = low * r.den]_vars

\* C14: for a session with F fillers in total, the summary taken at elapsed
\* time T, right after a tick that saw all of them, reports fillers_per_min
\* within 0.05 of F / (T in minutes), whenever the fillers were spoken.
C14_SummaryFillersPerMin ==
  (/\ runningSince /\ now > startTime /\ allMetrics # <<>>
   /\ allMetrics[Len(allMetrics)].t = now - startTime
   /\ allMetrics[Len(allMetrics)].transcript_final = transcriptFinal)
    => LET expected == (fillerCount * 60 * 1000) \div ((now - startTime) * SecPerUnit)
           got == SummaryFillersPerMin(Cur)
       IN got - expected <= 50 /\ expected - got <= 50

\* C15: the capture loop never posts a frame while an earlier frame's result
\* has not been received: at most one frame is outstanding at any time.
C15_OneFrameOutstanding == framesOutstanding <= 1

\* C16: a recognizer that ends while transcription is active is restarted,
\* and the automatic restarts in a row are bounded: their number never reaches
\* the largest number the model can count.
C16_RestartsBounded == restarts < MaxRestarts

\* C17: a recognizer error other than 'no-speech' is delivered to the
\* subscribers of the bus and leaves the session as it is; a 'no-speech' error
\* is delivered to nobody and changes nothing.
C17_ErrorsSurfaced ==
  [][(asrErrors' = asrErrors + 1 /\ isRunning /\ subscribers # <<>>)
       => /\ UNCHANGED <<ctlVars, envVars>>
          /\ IF lastAsrError' = "no-speech"
             THEN UNCHANGED <<lastPublish, nPublished>>
             ELSE nPublished' = nPublished + 1 \/ lastPublish' # lastPublish]_vars

\* C18: while classifications of final segments are pending every live timer
\* can still tick, and a tick publishes the cached emotion result and leaves it
\* as it is; a classification that fails leaves the cached result and the
\* rest of the session unchanged.
C18_ClassificationNonBlocking ==
  [][/\ (awaitingInit + awaitingPipe > 0)
          => \A id \in liveTimers : ENABLED Tick(id)
     /\ (Published /\ awaitingInit + awaitingPipe > 0)
          => /\ lastPublish'.event.emotions = lastEmotions
             /\ lastEmotions' = lastEmotions
     /\ (classifyFailed' > classifyFailed)
          => UNCHANGED <<ctlVars, envVars, subscribers, lastPublish,
                         nPublished>>]_vars

\* A tick has published a cached result while a classification was pending,
\* and a classification has failed with the cache still holding that result.
C18_Witness ==
  /\ lastPublish.classifying > 0
  /\ lastPublish.event.emotions # <<>>
  /\ classifyFailed > 0
  /\ lastEmotions = lastPublish.event.emotions

\* C19: at most one load of the emotion model is in progress; a call of
\* initGoEmotions starts a load exactly when none is in progress or done
\* (never loaded, or the last load failed) and otherwise shares it; the model
\* is ready only after a load has succeeded; a failed load leaves the model
\* unloaded.
C19_SingleLoad ==
  [][/\ loading' <= 1
     /\ (pipePromise' = "pending") = (loading' = 1)
     /\ pipeReady' => (lastLoad' = "succeeded" /\ pipePromise' = "fulfilled")
     /\ (initCalls' = initCalls + 1)
          => loading' = IF loading = 0 /\ ~pipeReady THEN 1 ELSE loading
     /\ (lastLoad' = "failed" /\ loading' < loading)
          => (pipePromise' = "null" /\ ~pipeReady')]_vars

\* After a failed load a fresh load is in progress and two classifications
\* share it.
C19_Witness == lastLoad = "failed" /\ loading = 1 /\ awaitingInit = 2

\* The places of q where a value above the threshold is followed by a value
\* at or below it.
DownCrossings(q) ==
  {i \in 2..Len(q) : q[i - 1] > BLINK_THRESHOLD /\ q[i] <= BLINK_THRESHOLD}

\* C20: for every sequence of per-frame EAR values the blinks counted are the
\* transitions from a value above the threshold to a value at or below it.
C20_BlinksAreDownCrossings == blinkCount = Cardinality(DownCrossings(earSeq))

\* C21: in a cycle that detects no face no blink is counted, the reported
\* blinks-per-minute is the value reported by the cycle before, and yaw, pitch,
\* smile and gaze jitter are reported as 0.
C21_NoFaceKeepsBlinkRate ==
  [][(cycles > 0 /\ cycles' = cycles + 1 /\ lastOutcome' = "noface")
       => /\ blinkCount' = blinkCount
          /\ workerResult'.blinkPerMin = workerResult.blinkPerMin
          /\ workerResult'.yaw = 0 /\ workerResult'.pitch = 0
          /\ workerResult'.smile = 0 /\ workerResult'.gazeJitter.num = 0]_vars

\* The timestamps pushed for the words of the final segments of the session.
RECURSIVE WordStamps(_, _)
WordStamps(segs, times) ==
  IF segs = <<>> THEN <<>>
  ELSE [i \in 1..Len(Split(Head(segs))) |-> Head(times)]
       \o WordStamps(Tail(segs), Tail(times))

\* The entries of q, in order, whose time is not before the cutoff.
RECURSIVE NotOlder(_, _)
NotOlder(q, cutoff) ==
  IF q = <<>> THEN <<>>
  ELSE IF Head(q) >= cutoff THEN <<Head(q)>> \o NotOlder(Tail(q), cutoff)
       ELSE NotOlder(Tail(q), cutoff)

RECURSIVE NotOlderGaze(_, _)
NotOlderGaze(q, cutoff) ==
  IF q = <<>> THEN <<>>
  ELSE IF Head(q).t >= cutoff THEN <<Head(q)>> \o NotOlderGaze(Tail(q), cutoff)
       ELSE NotOlderGaze(Tail(q), cutoff)

\* C22: after an insert into the blink window (60 s) or the gaze window (5 s),
\* and after a tick's read of the word window (30 s), the window holds, in
\* insertion order, exactly the inserted entries that are not older than the
\* horizon.
C22_WindowsHoldHorizon ==
  [][/\ (blinkInserted' # blinkInserted)
          => blinkTimestamps' = NotOlder(blinkInserted', workerNow' - WINDOW_MS)
     /\ (gazeInserted' # gazeInserted)
          => gazePositions'
               = NotOlderGaze(gazeInserted', workerNow' - GAZE_WINDOW_MS)
     /\ (Published /\ asrAvailable)
          => [i \in 1..Len(wordTimestamps') |-> wordTimestamps'[i] * SecPerUnit]
               = NotOlder([i \in 1..Len(WordStamps(transcriptFinal, finalTimes))
                             |-> WordStamps(transcriptFinal, finalTimes)[i]
                                   * SecPerUnit],
                          now * SecPerUnit - WPM_WINDOW_SEC)]_vars

\* Each of the three windows holds an entry and has evicted one: the blink
\* window right after an insert, the word window right after a tick.
C22_Witness ==
  /\ blinkTimestamps # <<>> /\ Len(blinkTimestamps) < Len(blinkInserted)
  /\ blinkTimestamps[Len(blinkTimestamps)] = workerNow
  /\ Len(gazePositions) > 1 /\ Len(gazePositions) < Len(gazeInserted)
  /\ wordTimestamps # <<>>
  /\ Len(wordTimestamps) < Len(WordStamps(transcriptFinal, finalTimes))
  /\ lastPublish.event.t = now - startTime /\ nPublished > 0
  /\ lastPublish.event.transcript_final = transcriptFinal

\* C23: a frame whose capture throws is followed by the next cycle of the
\* capture loop as long as the session runs; no step of a running session
\* ends the loop; an analysis that throws is answered with the neutral result
\* and leaves the worker's tracking state as it was.
C23_FailedFrameKeepsLoop ==
  [][/\ (frameFailed' /\ ~frameFailed /\ isRunning')
          => faceLoopId' \in liveLoops'
     /\ (isRunning /\ isRunning' /\ (liveLoops # {} \/ capturing > 0))
          => (liveLoops' # {} \/ capturing' > 0)
     /\ (cycles' = cycles + 1 /\ lastOutcome' = "error")
          => (workerResult' = Neutral /\ UNCHANGED blinkVars)]_vars

\* In a running session a capture has failed and the loop is scheduled again;
\* before that an analysis threw, its neutral result reached the controller,
\* and a later frame has been posted.
C23_Witness ==
  /\ isRunning /\ frameFailed /\ faceLoopId \in liveLoops
  /\ lastOutcome = "error" /\ cycles = nEvents /\ nEvents > 0
  /\ latestFaceData = Neutral
  /\ framesOutstanding > 0

\* C24: no start() stays pending in the initialization of the audio worklet or
\* of the face worker for more than the bounded duration (30 s): by then it
\* has been rejected.
C24_InitTimesOut ==
  \A c \in DOMAIN calls :
    (calls[c].kind = "start" /\ calls[c].pc \in {"worklet", "faceinit"})
      => (now - calls[c].since) * SecPerUnit <= INIT_TIMEOUT_SEC

\* The numbers of a log stand in their teardown order.
InOrder(q) == \A i, j \in DOMAIN q : i < j => q[i] < q[j]

\* C25: stop() performs its teardown steps in the order timer,
\* transcription, face loop and worker, audio node and context, media
\* tracks, video sink: in the steps performed by any one call, in flight or
\* settled, no step comes after a step that is later in this order.
C25_TeardownInOrder ==
  /\ \A c \in DOMAIN calls : InOrder(calls[c].steps)
  /\ InOrder(lastSettled.steps)

\* A stop() has resolved after performing all eight steps.
C25_Witness ==
  /\ lastSettled.kind = "stop"
  /\ lastSettled.outcome = "resolved"
  /\ lastSettled.steps = <<1, 2, 3, 4, 5, 6, 7, 8>>

\* The session data: history, transcript, filler count, emotion result.
sessionData == <<allMetrics, transcriptFinal, fillerCount, lastEmotions>>

\* The step is a producer callback (a message or a final segment).
Produced == nEvents' = nEvents + 1

\* The step is the settling of a classification started by onFinal.
Classified == awaitingPipe' = awaitingPipe - 1

\* The step is the reset of an accepted start().
SessionReset == Issued("start") /\ ~SettledAtOnce

\* A start() resolves in the step.
StartResolved ==
  /\ \E c \in DOMAIN calls \ DOMAIN calls' : calls[c].kind = "start"
  /\ lastSettled'.outcome = "resolved"

\* C26: the session data (history, transcript, filler count, emotion result)
\* is changed only by ticks, by producer callbacks and by the reset of an
\* accepted start(); stop() and the read operations leave it unchanged; and
\* when a start() resolves, the history and the transcript are empty, the
\* filler count is zero and there is no emotion result.
C26_SessionDataFrame ==
  [][/\ sessionData' # sessionData
          => (Published \/ Produced \/ Classified \/ SessionReset)
     /\ StartResolved => sessionData' = <<<<>>, <<>>, 0, <<>>>>]_vars

\* The values of a series, as a set, and the number of values below x.
Values(v) == {v[i] : i \in 1..Len(v)}
Below(v, x) == Cardinality({i \in 1..Len(v) : v[i] < x})

\* C27: for the wpm series of the session history, getMetricsSummary()
\* reports null when the series is empty, and otherwise min and max equal to
\* the smallest and largest value, mean equal to the arithmetic mean (to
\* the two decimals reported), and
\* median equal to the statistical median (for an even length the midpoint
\* of the two middle values), with min <= median <= max.
C27_SummaryStatistics ==
  LET v == WpmValues(allMetrics)
      s == SummaryWpm(Cur)
      n == Len(v)
      sorted == SortAsc(v)
  IN IF v = <<>> THEN s = Absent
     ELSE /\ s.min \in Values(v) /\ \A x \in Values(v) : s.min <= x
          /\ s.max \in Values(v) /\ \A x \in Values(v) : x <= s.max
          /\ (s.mean * n - Sum(v) * 100) * 2 <= n
          /\ (Sum(v) * 100 - s.mean * n) * 2 <= n
          /\ 2 * s.median =
               IF n % 2 = 1 THEN 2 * sorted[(n + 1) \div 2]
               ELSE sorted[n \div 2] + sorted[(n \div 2) + 1]
          /\ s.min <= s.median /\ s.median <= s.max

\* The points of the log that arrived in the last CHART_BUFFER_SEC seconds
\* before t (clock units), as buffer entries.
RECURSIVE RecentPoints(_, _)
RecentPoints(log, t) ==
  IF log = <<>> THEN <<>>
  ELSE IF Head(log).at * SecPerUnit < t * SecPerUnit - CHART_BUFFER_SEC
       THEN RecentPoints(Tail(log), t)
       ELSE <<[t |-> Head(log).t, v |-> Head(log).v]>>
              \o RecentPoints(Tail(log), t)

\* C28: after the hook has received a snapshot with a defined wpm, the wpm
\* buffer holds exactly the points received during the last CHART_BUFFER_SEC
\* seconds, the point just added included.
C28_ChartBufferHoldsWindow ==
  [][Len(received') = Len(received) + 1
       => wpmData' = RecentPoints(received', now')]_vars

\* The controller is stopped: not running, with no timer that publishes and
\* no media track that captures.
ControllerStopped == ~isRunning /\ liveTimers = {} /\ liveTracks = {}

\* C29: whenever the interview is not running after the panel has requested
\* controller.start(), also while that start() is in progress, then
\* eventually the interview is running again or the controller is stopped and
\* exactly one summary has been delivered to onSummary.
C29_AutoStopOnCallEnd ==
  (nCalls > 0 /\ ~isInterviewRunning)
    ~> (isInterviewRunning \/ (ControllerStopped /\ summaries = 1))

\* C30: when the panel has started the controller, the controller was given
\* the panel's video element and the face pipeline is set up: a live face
\* worker and a scheduled capture loop.
C30_PanelStartsFacePipeline ==
  (panelRunning /\ isRunning)
    => (videoElement /\ faceWorker \in liveWorkers /\ faceLoopId \in liveLoops)

\* C31: while Running, a tick appends exactly one snapshot to the history
\* (dropping at most the oldest) and publishes that snapshot once, whether or
\* not a producer has produced a value; the loudness and face fields of the
\* snapshot are the last message of each producer, and the tick leaves the
\* producer caches unchanged.
C31_TickPublishesLatest ==
  [][(Published /\ runningSince)
       => LET e == lastPublish'.event
          IN /\ \/ allMetrics' = Append(allMetrics, e)
                \/ /\ allMetrics # <<>>
                   /\ allMetrics' = Append(Tail(allMetrics), e)
             /\ e.seq = nPublished'
             /\ e.rms = lastAudioMsg /\ e.face = lastFaceMsg
             /\ UNCHANGED <<latestAudioData, latestFaceData>>]_vars

\* A tick before any producer message, then two worklet messages and a tick
\* that carries the second one.
C31_Witness ==
  /\ runningSince /\ Len(allMetrics) >= 2
  /\ allMetrics[1].rms = Null /\ allMetrics[1].face = Null
  /\ nEvents = 2 /\ transcriptFinal = <<>> /\ lastFaceMsg = Null
  /\ lastPublish.event.rms = lastAudioMsg /\ lastAudioMsg # Null
  /\ \E i \in DOMAIN allMetrics :
       allMetrics[i].rms \notin {Null, lastAudioMsg}

\* The controller is Idle: not running, and it holds no media stream, no
\* timer, no worker and no audio context.
Idle ==
  /\ ~isRunning /\ stream = Null /\ liveTracks = {}
  /\ metricsIntervalId = Null /\ liveTimers = {}
  /\ faceWorker = Null /\ liveWorkers = {}
  /\ audioContext = Null /\ openContexts = {}

\* C32: when a stop() was called while a start() was in progress, these two
\* being the only calls, then once both have settled the controller is Idle.
C32_StopDuringStartLeavesIdle ==
  (nCalls = 2 /\ DOMAIN calls = {} /\ lastSettled.stopDuringStart) => Idle

\* The classifications in progress are the ones counted as awaiting.
ClassifyingCounted == Cardinality(classifying) = awaitingInit + awaitingPipe

\* C33: an emotion classification started in one session never changes the
\* emotion result of a later session: after the reset of an accepted start()
\* the cached emotion result, and with it the emotions of every snapshot, is
\* empty until a classification of a segment finalized in that same session
\* completes.
C33_NoEmotionsAcrossSessions ==
  /\ ~emoFrom.old
  /\ lastEmotions # <<>> => emoFrom.seg > 0

\* C34: the cached emotion result is the result for the most recently
\* finalized segment among the classifications that have completed; a
\* classification that completes out of order does not replace the result
\* of a classification of a later segment.
C34_LatestSegmentWins == emoFrom.seg = doneMax
\* C35: in every session, the second and later ones included, the duration
\* reported by getMetricsSummary() and getMetricsDump() is not negative and
\* is the time from the session's start to now while the session runs, and
\* to the session's end once it is stopped.
C35_DurationOfSession ==
  /\ isRunning => (Duration >= 0 /\ Duration = now - startTime)
  /\ (~isRunning /\ endTime # Absent)
       => (Duration >= 0 /\ Duration = endTime - startTime)
\* The capture loops that are active: the scheduled captureFrame callbacks
\* and the captureFrame calls suspended at createImageBitmap.
LoopsActive == Cardinality(liveLoops) + capturing

\* C36: once stop() has resolved (and until the next start() is called) the
\* capture loop posts no further frame to the worker and schedules no further
\* cycle, and at no time is more than one capture loop active, also when
\* stop() and a following start() come while a capture cycle is suspended
\* awaiting its bitmap.
C36_CaptureLoopEndsWithSession ==
  [][/\ LoopsActive' <= 1
     /\ (stoppedSince /\ ~isRunning /\ DOMAIN calls = {} /\ nCalls' = nCalls)
          => /\ framesOutstanding' <= framesOutstanding
             /\ liveLoops' \subseteq liveLoops]_vars
\* C37: a subscriber registered through one controller's onMetrics()
\* receives only the snapshots of that controller, and a start or stop that
\* one controller executes is not executed by the other: of two controllers
\* neither sees the other's snapshots or commands.
C37_ControllersIsolated ==
  [][/\ \A i \in DOMAIN lastPublish'.invoked :
          LET s == lastPublish'.invoked[i]
          IN /\ lastPublish'.by = "peer" => subscriptions'[s] = 0
             /\ lastPublish'.by = "own" => s \notin viaPeer'
     /\ nCalls' # nCalls => peerRunning' = peerRunning]_vars

\* C38: each subscribe() call is a subscription of its own: a callback that
\* has a subscription whose unsubscribe function was not called, the second
\* subscription of a callback included, receives every published snapshot.
C38_SubscriptionsIndependent ==
  [][Published
       => \A s \in Subs :
            subscriptions[s] > 0 => InSeq(s, lastPublish'.invoked)]_vars
\* The step delivers a recognizer result of the given kind.
ResultStep(kind) == nEvents' = nEvents + 1 /\ lastResult' = kind

\* a is an initial part of b.
InitialPart(a, b) == Len(a) <= Len(b) /\ SubSeq(b, 1, Len(a)) = a

\* C39: an interim result changes only the interim text (the final
\* transcript, the word timestamps, the filler count and the emotion result
\* stay as they are); a final result appends its text to the final
\* transcript, clears the interim text and does not decrease the filler
\* count; and within a session the final transcript only grows, in arrival
\* order.
C39_TranscriptResults ==
  [][/\ ResultStep("interim")
          => UNCHANGED <<transcriptFinal, wordTimestamps, fillerCount,
                         lastEmotions>>
     /\ ResultStep("final")
          => /\ \E seg \in Segments :
                  transcriptFinal' = Append(transcriptFinal, seg)
             /\ transcriptInterim' = <<>>
             /\ fillerCount' >= fillerCount
     /\ ~SessionReset
          => /\ InitialPart(transcriptFinal, transcriptFinal')
             /\ fillerCount' >= fillerCount]_vars

C39_Witness ==
  /\ nCalls = 1 /\ nEvents = 3 /\ lastResult = "final"
  /\ Len(transcriptFinal) = 2 /\ transcriptFinal[1] # transcriptFinal[2]
  /\ transcriptInterim = <<>> /\ fillerCount > 0
\* The entries of the last result of the model that pass the threshold.
PassingEntries ==
  {goInput.raw[i] : i \in {j \in 1..Len(goInput.raw) :
                             goInput.raw[j].score >= goInput.threshold}}

\* C40: for every list of scored labels with distinct labels,
\* classifyGoEmotions returns entries in descending score order with no label
\* twice; the entries returned are exactly those that pass the threshold
\* when at least topK pass, and otherwise exactly min(topK, n) entries of the
\* list with no entry left out that scores higher than one returned.
C40_PickedLabels ==
  LET out == goOutput
      raw == goInput.raw
      all == {raw[i] : i \in 1..Len(raw)}
      got == {out[i] : i \in 1..Len(out)}
  IN /\ \A i, j \in 1..Len(out) : i < j => out[i].score >= out[j].score
     /\ \A i, j \in 1..Len(out) : i # j => out[i].label # out[j].label
     /\ IF Cardinality(PassingEntries) >= goInput.topK
        THEN got = PassingEntries
        ELSE /\ Len(out) = Min(goInput.topK, Len(raw))
             /\ got \subseteq all
             /\ \A e \in all \ got : \A g \in got : e.score <= g.score

C40_Witness ==
  /\ Len(goInput.raw) = 4 /\ goInput.topK = 3
  /\ Cardinality(PassingEntries) = 1
  /\ goInput.raw[4].score >= goInput.threshold
  /\ goInput.raw[1].score = goInput.raw[2].score
  /\ Len(goOutput) = 3 /\ goOutput[1] = goInput.raw[4]
====
